---- MODULE Spec2Model ----
(***************************************************************************)
(* A model of the stackvm execution engine: the executor (Execute, Reset,  *)
(* executeInstruction), the standard opcode handlers, SimpleMemory, and    *)
(* the execution context handed to custom instruction handlers.            *)
(*                                                                         *)
(* Float values are carried as integers: every float the bounded programs  *)
(* below can produce is integer-valued, so x/y is only ever evaluated      *)
(* where it is exact.  The instruction counter is a uint32 in the source;  *)
(* the model stops dispatching at MaxSteps, far below its wrap-around.     *)
(***************************************************************************)
EXTENDS Integers, Sequences, FiniteSets, TLC

VARIABLES
    config,     \* executor.config: StackSize, DefaultInstrLimit, InstructionRegistry
    e,          \* the executor's fields: stack, pc, halted, instrCount
    memory,     \* SimpleMemory.data of the memory passed to Execute
    userData,   \* executionContextImpl.userData of the running Execute call
    program,    \* program.Instructions() of the running Execute call
    opts,       \* the ExecuteOptions of the running Execute call
    ctxState,   \* opts.Context: "nil", "live" or "canceled"
    elapsed,    \* time.Now() - startTime, in clock ticks
    phase,      \* "ready", "check" (top of the loop), "dispatch", "done"
    result,     \* the Result returned by the last Execute call
    fresh,      \* a newly constructed VM driven through the same Execute call
    hist,       \* observations of the running call (not program state)
    registry,   \* an instructionRegistry shared by threads: handlers and mu
    calls,      \* the registry call each thread is in, and where it is in it
    shadow,     \* observations of registry and memory calls (not program state)
    tool,       \* the toolchain call under way: codec, builder, assembler
    pool        \* a VMPool, its VMs and the Execute calls of its callers

engine == <<config, e, userData, program, opts, ctxState, elapsed, phase,
            result, fresh, hist>>

vars == <<config, e, memory, userData, program, opts, ctxState, elapsed,
          phase, result, fresh, hist, registry, calls, shadow, tool, pool>>

----------------------------------------------------------------------------
(* Bounds of the model *)

MaxProgLen == 3
MaxSteps == 4
MaxTime == 2
MemSize == 1

----------------------------------------------------------------------------
(* Opcodes (instruction.go) *)

OpPUSH == 0
OpPUSHI == 1
OpPOP == 2
OpDUP == 3
OpSWAP == 4
OpOVER == 5
OpROT == 6
OpADD == 16
OpSUB == 17
OpMUL == 18
OpDIV == 19
OpMOD == 20
OpNEG == 21
OpABS == 22
OpINC == 23
OpDEC == 24
OpAND == 32
OpOR == 33
OpNOT == 34
OpXOR == 35
OpEQ == 40
OpNE == 41
OpGT == 42
OpLT == 43
OpGE == 44
OpLE == 45
OpLOAD == 48
OpSTORE == 49
OpLOADD == 50
OpSTORED == 51
OpJMP == 56
OpJMPZ == 57
OpJMPNZ == 58
OpCALL == 59
OpRET == 60
OpHALT == 61
OpNOP == 62
OpSQRT == 64
OpSIN == 65
OpCOS == 66
OpTAN == 67
OpASIN == 68
OpACOS == 69
OpATAN == 70
OpATAN2 == 71
OpLOG == 72
OpLOG10 == 73
OpEXP == 74
OpPOW == 75
OpMIN == 76
OpMAX == 77
OpFLOOR == 78
OpCEIL == 79
OpROUND == 80
OpTRUNC == 81

FirstCustomOpcode == 128

NewInstruction(opcode, operand) == [Opcode |-> opcode, Operand |-> operand]

----------------------------------------------------------------------------
(* Errors (errors.go).  An error value is its sentinel plus, for a VMError, *)
(* the context record that wraps it.                                        *)

Sentinel(msg) == [Err |-> msg, vmerr |-> <<>>]

NoError == Sentinel("nil")
ErrStackOverflow == Sentinel("stack overflow")
ErrStackUnderflow == Sentinel("stack underflow")
ErrInvalidMemoryAddress == Sentinel("invalid memory address")
ErrInvalidOpcode == Sentinel("invalid opcode")
ErrInstructionLimit == Sentinel("instruction limit exceeded")
ErrDivisionByZero == Sentinel("division by zero")
ErrTypeMismatch == Sentinel("type mismatch")
ErrTimeout == Sentinel("execution timeout")
ContextCanceled == Sentinel("context canceled")
ErrHandler == Sentinel("handler failed")

VMError(err, pc, instrCount, stackDepth, opcode) ==
    [Err |-> err.Err,
     vmerr |-> <<[PC |-> pc, InstructionCount |-> instrCount,
                  StackDepth |-> stackDepth, Opcode |-> opcode]>>]

IsVMError(err) == err.vmerr # <<>>

\* errors.Is(err, target): identity for a sentinel, VMError.Is otherwise.
ErrorsIs(err, target) ==
    IF IsVMError(err) THEN Sentinel(err.Err) = target ELSE err = target

----------------------------------------------------------------------------
(* Values (value.go) *)

NilValue == [Type |-> "Nil", Data |-> 0]
FloatValue(v) == [Type |-> "Float", Data |-> v]
IntValue(v) == [Type |-> "Int", Data |-> v]
BoolValue(v) == [Type |-> "Bool", Data |-> IF v THEN 1 ELSE 0]

IsTruthy(v) ==
    CASE v.Type = "Nil" -> FALSE
      [] v.Type = "Float" -> v.Data # 0
      [] v.Type = "Int" -> v.Data # 0
      [] v.Type = "Bool" -> v.Data = 1
      [] OTHER -> FALSE

Equal(v, other) ==
    IF v.Type # other.Type THEN FALSE
    ELSE IF v.Type = "Nil" THEN TRUE
    ELSE v.Data = other.Data

\* toFloat64 / toInt64: [val, err]
toFloat64(v) ==
    IF v.Type \in {"Float", "Int"}
    THEN [val |-> v.Data, err |-> NoError]
    ELSE [val |-> 0, err |-> ErrTypeMismatch]

toInt64(v) ==
    IF v.Type \in {"Float", "Int"}
    THEN [val |-> v.Data, err |-> NoError]
    ELSE [val |-> 0, err |-> ErrTypeMismatch]

toBool(v) == IsTruthy(v)

----------------------------------------------------------------------------
(* SimpleMemory (memory.go) *)

NewSimpleMemory(size) == [i \in 0 .. size - 1 |-> NilValue]

Size(m) == Cardinality(DOMAIN m)

Load(m, index) ==
    IF index < 0 \/ index >= Size(m)
    THEN [val |-> NilValue, err |-> ErrInvalidMemoryAddress]
    ELSE [val |-> m[index], err |-> NoError]

\* Store with the upper bound tested one late.
StoreOffByOne(m, index, value) ==
    IF index < 0 \/ index > Size(m)
    THEN [mem |-> m, err |-> ErrInvalidMemoryAddress]
    ELSE [mem |-> [m EXCEPT ![index] = value], err |-> NoError]

Store(m, index, value) ==
    IF index < 0 \/ index >= Size(m)
    THEN [mem |-> m, err |-> ErrInvalidMemoryAddress]
    ELSE [mem |-> [m EXCEPT ![index] = value], err |-> NoError]

----------------------------------------------------------------------------
(* Standard opcode handlers (ops_arithmetic.go, ops_logic.go,              *)
(* ops_comparison.go, ops_math.go).  Each takes the stack and returns      *)
(* [stack, err]; the top of the stack is the last element.                 *)

Top(stack, n) == stack[Len(stack) - n]
Drop(stack, n) == SubSeq(stack, 1, Len(stack) - n)

numericOp(a, b, op(_, _)) ==
    LET aVal == toFloat64(a)
        bVal == toFloat64(b)
    IN  IF aVal.err # NoError THEN [val |-> NilValue, err |-> aVal.err]
        ELSE IF bVal.err # NoError THEN [val |-> NilValue, err |-> bVal.err]
        ELSE [val |-> FloatValue(op(aVal.val, bVal.val)), err |-> NoError]

unaryOp(v, op(_)) ==
    LET val == toFloat64(v)
    IN  IF val.err # NoError THEN [val |-> NilValue, err |-> val.err]
        ELSE [val |-> FloatValue(op(val.val)), err |-> NoError]

FAdd(x, y) == x + y
FSub(x, y) == x - y
FMul(x, y) == x * y
FDiv(x, y) == x \div y
FNeg(x) == 0 - x
FInc(x) == x + 1
FDec(x) == x - 1
FAbs(x) == IF x < 0 THEN 0 - x ELSE x
FMin(x, y) == IF x < y THEN x ELSE y
FMax(x, y) == IF x > y THEN x ELSE y
FRound(x) == x
\* Go's % truncates toward zero.
IMod(x, y) ==
    LET r == FAbs(x) % FAbs(y) IN IF x < 0 THEN 0 - r ELSE r

\* opAdd, opSub, opMul, opMin, opMax: arity check, pop both, then convert.
binaryNumeric(stack, op(_, _)) ==
    IF Len(stack) < 2 THEN [stack |-> stack, err |-> ErrStackUnderflow]
    ELSE LET b == Top(stack, 0)
             a == Top(stack, 1)
             rest == Drop(stack, 2)
             r == numericOp(a, b, op)
         IN  IF r.err # NoError THEN [stack |-> rest, err |-> r.err]
             ELSE [stack |-> Append(rest, r.val), err |-> NoError]

unaryNumeric(stack, op(_)) ==
    IF Len(stack) < 1 THEN [stack |-> stack, err |-> ErrStackUnderflow]
    ELSE LET a == Top(stack, 0)
             rest == Drop(stack, 1)
             r == unaryOp(a, op)
         IN  IF r.err # NoError THEN [stack |-> rest, err |-> r.err]
             ELSE [stack |-> Append(rest, r.val), err |-> NoError]

opAdd(stack) == binaryNumeric(stack, FAdd)
opSub(stack) == binaryNumeric(stack, FSub)
opMul(stack) == binaryNumeric(stack, FMul)

opDiv(stack) ==
    IF Len(stack) < 2 THEN [stack |-> stack, err |-> ErrStackUnderflow]
    ELSE LET b == Top(stack, 0)
             a == Top(stack, 1)
             rest == Drop(stack, 2)
             bVal == toFloat64(b)
         IN  IF bVal.err # NoError THEN [stack |-> rest, err |-> bVal.err]
             ELSE IF bVal.val = 0 THEN [stack |-> rest, err |-> ErrDivisionByZero]
             ELSE LET r == numericOp(a, b, FDiv)
                  IN  IF r.err # NoError THEN [stack |-> rest, err |-> r.err]
                      ELSE [stack |-> Append(rest, r.val), err |-> NoError]

opMod(stack) ==
    IF Len(stack) < 2 THEN [stack |-> stack, err |-> ErrStackUnderflow]
    ELSE LET b == Top(stack, 0)
             a == Top(stack, 1)
             rest == Drop(stack, 2)
             aVal == toInt64(a)
             bVal == toInt64(b)
         IN  IF aVal.err # NoError THEN [stack |-> rest, err |-> aVal.err]
             ELSE IF bVal.err # NoError THEN [stack |-> rest, err |-> bVal.err]
             ELSE IF bVal.val = 0 THEN [stack |-> rest, err |-> ErrDivisionByZero]
             ELSE [stack |-> Append(rest, IntValue(IMod(aVal.val, bVal.val))),
                   err |-> NoError]

opNeg(stack) == unaryNumeric(stack, FNeg)
opAbs(stack) == unaryNumeric(stack, FAbs)
opInc(stack) == unaryNumeric(stack, FInc)
opDec(stack) == unaryNumeric(stack, FDec)

\* Logic: reduce by truthiness, never fail on type.
binaryLogic(stack, op(_, _)) ==
    IF Len(stack) < 2 THEN [stack |-> stack, err |-> ErrStackUnderflow]
    ELSE LET b == Top(stack, 0)
             a == Top(stack, 1)
         IN  [stack |-> Append(Drop(stack, 2), BoolValue(op(IsTruthy(a), IsTruthy(b)))),
              err |-> NoError]

LAnd(x, y) == x /\ y
LOr(x, y) == x \/ y
LXor(x, y) == (x \/ y) /\ ~(x /\ y)

opAnd(stack) == binaryLogic(stack, LAnd)
opOr(stack) == binaryLogic(stack, LOr)
opXor(stack) == binaryLogic(stack, LXor)

opNot(stack) ==
    IF Len(stack) < 1 THEN [stack |-> stack, err |-> ErrStackUnderflow]
    ELSE [stack |-> Append(Drop(stack, 1), BoolValue(~IsTruthy(Top(stack, 0)))),
          err |-> NoError]

opEq(stack) ==
    IF Len(stack) < 2 THEN [stack |-> stack, err |-> ErrStackUnderflow]
    ELSE [stack |-> Append(Drop(stack, 2),
                           BoolValue(Equal(Top(stack, 1), Top(stack, 0)))),
          err |-> NoError]

opNe(stack) ==
    IF Len(stack) < 2 THEN [stack |-> stack, err |-> ErrStackUnderflow]
    ELSE [stack |-> Append(Drop(stack, 2),
                           BoolValue(~Equal(Top(stack, 1), Top(stack, 0)))),
          err |-> NoError]

\* opGt, opLt, opGe, opLe: arity check, pop both, then convert.
compare(stack, op(_, _)) ==
    IF Len(stack) < 2 THEN [stack |-> stack, err |-> ErrStackUnderflow]
    ELSE LET b == Top(stack, 0)
             a == Top(stack, 1)
             rest == Drop(stack, 2)
             aVal == toFloat64(a)
             bVal == toFloat64(b)
         IN  IF aVal.err # NoError THEN [stack |-> rest, err |-> aVal.err]
             ELSE IF bVal.err # NoError THEN [stack |-> rest, err |-> bVal.err]
             ELSE [stack |-> Append(rest, BoolValue(op(aVal.val, bVal.val))),
                   err |-> NoError]

CGt(x, y) == x > y
CLt(x, y) == x < y
CGe(x, y) == x >= y
CLe(x, y) == x <= y

opGt(stack) == compare(stack, CGt)
opLt(stack) == compare(stack, CLt)
opGe(stack) == compare(stack, CGe)
opLe(stack) == compare(stack, CLe)

\* ops_math.go: the functions that are exact on integer-valued floats.
mathUnaryOp(stack, op(_)) == unaryNumeric(stack, op)
opFloor(stack) == mathUnaryOp(stack, FRound)
opCeil(stack) == mathUnaryOp(stack, FRound)
opRound(stack) == mathUnaryOp(stack, FRound)
opTrunc(stack) == mathUnaryOp(stack, FRound)
opMin(stack) == binaryNumeric(stack, FMin)
opMax(stack) == binaryNumeric(stack, FMax)

\* SQRT, SIN .. EXP, POW (opcodes 64 .. 75) are not exact on integers: only
\* their place in the dispatch table is modelled, and no program below uses
\* them.
InexactMathOps == 64 .. 75

----------------------------------------------------------------------------
(* The instruction registry (registry.go).  The handlers map is a function *)
(* from the bound opcodes to handlers; a handler is known by its name.      *)
(* Register, Unregister, Get, List and Names below are the calls as one     *)
(* thread alone performs them; the steps of concurrent calls come later.    *)

NewInstructionRegistry == [o \in {} |-> ""]

ErrReservedOpcode == Sentinel("cannot register standard opcode")
ErrAlreadyRegistered == Sentinel("opcode already registered")
ErrNotRegistered == Sentinel("opcode not registered")

\* The reserved range tested one short.
IsReservedOffByOne(opcode) == opcode < FirstCustomOpcode - 1

\* if opcode < 128
IsReserved(opcode) == opcode < FirstCustomOpcode

\* Register without the test for an existing binding.
RegisterRefusedNever(handlers, opcode) == FALSE

\* if _, exists := r.handlers[opcode]; exists (Register)
RegisterRefused(handlers, opcode) == opcode \in DOMAIN handlers

\* if _, exists := r.handlers[opcode]; !exists (Unregister)
UnregisterRefused(handlers, opcode) == opcode \notin DOMAIN handlers

\* r.handlers[opcode] = handler
Bind(handlers, opcode, handler) ==
    [o \in DOMAIN handlers \cup {opcode} |->
        IF o = opcode THEN handler ELSE handlers[o]]

\* A delete that removes nothing.
UnbindKeeps(handlers, opcode) == handlers

\* delete(r.handlers, opcode)
Unbind(handlers, opcode) ==
    [o \in DOMAIN handlers \ {opcode} |-> handlers[o]]

Register(handlers, opcode, handler) ==
    IF IsReserved(opcode) THEN [reg |-> handlers, err |-> ErrReservedOpcode]
    ELSE IF RegisterRefused(handlers, opcode)
         THEN [reg |-> handlers, err |-> ErrAlreadyRegistered]
    ELSE [reg |-> Bind(handlers, opcode, handler), err |-> NoError]

Unregister(handlers, opcode) ==
    IF UnregisterRefused(handlers, opcode)
    THEN [reg |-> handlers, err |-> ErrNotRegistered]
    ELSE [reg |-> Unbind(handlers, opcode), err |-> NoError]

Get(handlers, opcode) ==
    IF opcode \in DOMAIN handlers
    THEN [handler |-> handlers[opcode], exists |-> TRUE]
    ELSE [handler |-> "", exists |-> FALSE]

\* The opcodes in the order of a map iteration: any order, so a set.
List(handlers) == DOMAIN handlers

\* handler.Name() of a handler known by its name
HandlerName(handler) == handler

Names(handlers) == [o \in DOMAIN handlers |-> HandlerName(handlers[o])]

----------------------------------------------------------------------------
(* The execution context handed to custom handlers.  An execution state x  *)
(* is [e, memory, userData]: the executor's fields, the memory of the call *)
(* and the context's scratch map (a set of <<key, value>> pairs).          *)

ctxPush(x, value, cfg) ==
    LET maxDepth == cfg.StackSize
    IN  IF Len(x.e.stack) >= maxDepth THEN [x |-> x, err |-> ErrStackOverflow]
        ELSE [x |-> [x EXCEPT !.e.stack = Append(@, value)], err |-> NoError]

ctxSetPC(x, pc) == [x EXCEPT !.e.pc = pc]

ctxJump(x, offset) == [x EXCEPT !.e.pc = offset]

ctxIncrementInstructionCount(x) ==
    [x EXCEPT !.e.instrCount = @ + 1]

ctxHalt(x) == [x EXCEPT !.e.halted = TRUE]

ctxUserDataGet(x, key) ==
    LET hit == {kv \in x.userData : kv[1] = key}
    IN  IF hit = {} THEN 0 ELSE (CHOOSE kv \in hit : TRUE)[2]

ctxUserDataSet(x, key, value) ==
    [x EXCEPT !.userData = {kv \in @ : kv[1] # key} \cup {<<key, value>>}]

\* ctx.IncrementInstructionCount() called 2^32 - 1 times in a row: the uint32
\* counter, which the dispatch has just raised to 1 or more, wraps around
\* and ends one below where it was.
ctxIncrementAround(x) == [x EXCEPT !.e.instrCount = @ - 1]

\* The handlers a host registers: each uses one capability of the context.
HandlerExecute(handler, x, operand, cfg) ==
    CASE handler = "PUSHOP" -> ctxPush(x, IntValue(operand), cfg)
      [] handler = "INCR" -> [x |-> ctxIncrementInstructionCount(x), err |-> NoError]
      [] handler = "SETPC" -> [x |-> ctxSetPC(x, operand), err |-> NoError]
      [] handler = "JUMP" -> [x |-> ctxJump(x, operand), err |-> NoError]
      [] handler = "HALT" -> [x |-> ctxHalt(x), err |-> NoError]
      [] handler = "FAIL" -> [x |-> x, err |-> ErrHandler]
      [] handler = "ABORT" ->
            [x |-> ctxHalt(ctxSetPC(ctxIncrementInstructionCount(x), operand)),
             err |-> ErrHandler]
      [] handler = "WRAP" -> [x |-> ctxIncrementAround(x), err |-> NoError]
      [] handler = "COUNT" ->
            LET n == ctxUserDataGet(x, "n")
            IN  ctxPush(ctxUserDataSet(x, "n", n + 1), IntValue(n), cfg)

----------------------------------------------------------------------------
(* The executor (vm_impl.go) *)

DefaultStackSize == 256

newExecutor(cfg) ==
    [config |-> IF cfg.StackSize <= 0
                THEN [cfg EXCEPT !.StackSize = DefaultStackSize] ELSE cfg,
     e |-> [stack |-> <<>>, pc |-> 0, halted |-> FALSE, instrCount |-> 0]]

\* Execute, lines 653-656: the state reset on entry.
ExecuteEntry(ev) ==
    [ev EXCEPT !.stack = <<>>, !.pc = 0, !.halted = FALSE, !.instrCount = 0]

\* Reset that leaves the halted flag as it was.
ResetKeepsHalted(ev) ==
    [ev EXCEPT !.stack = <<>>, !.pc = 0, !.instrCount = 0]

\* Reset
Reset(ev) ==
    [ev EXCEPT !.stack = <<>>, !.pc = 0, !.halted = FALSE, !.instrCount = 0]

\* Execute, lines 659-667: the limits in force.
maxInstructions(o, cfg) ==
    IF o.MaxInstructions = 0 /\ cfg.DefaultInstrLimit > 0
    THEN cfg.DefaultInstrLimit ELSE o.MaxInstructions

maxStackDepth(o, cfg) ==
    IF o.MaxStackDepth <= 0 THEN cfg.StackSize ELSE o.MaxStackDepth

\* push with the bound tested after the append.
pushAppendsFirst(x, val, maxDepth) ==
    IF Len(x.e.stack) >= maxDepth
    THEN [x |-> [x EXCEPT !.e.stack = Append(@, val)], err |-> ErrStackOverflow]
    ELSE [x |-> [x EXCEPT !.e.stack = Append(@, val)], err |-> NoError]

push(x, val, maxDepth) ==
    IF Len(x.e.stack) >= maxDepth THEN [x |-> x, err |-> ErrStackOverflow]
    ELSE [x |-> [x EXCEPT !.e.stack = Append(@, val)], err |-> NoError]

pop(x) ==
    IF Len(x.e.stack) = 0 THEN [x |-> x, val |-> NilValue, err |-> ErrStackUnderflow]
    ELSE [x |-> [x EXCEPT !.e.stack = Drop(@, 1)],
          val |-> Top(x.e.stack, 0), err |-> NoError]

peek(x) ==
    IF Len(x.e.stack) = 0 THEN [val |-> NilValue, err |-> ErrStackUnderflow]
    ELSE [val |-> Top(x.e.stack, 0), err |-> NoError]

\* e.stack, err = opXxx(e.stack); return err
applyOp(x, r) == [x |-> [x EXCEPT !.e.stack = r.stack], err |-> r.err]

\* The PC set to the target itself, which the loop then steps past.
jumpToExact(x, operand) == [x EXCEPT !.e.pc = operand]

\* e.pc = int(inst.Operand) - 1
jumpTo(x, operand) == [x EXCEPT !.e.pc = operand - 1]

StackOps == {OpPUSH, OpPUSHI, OpPOP, OpDUP, OpSWAP, OpOVER, OpROT}
MemoryOps == {OpLOAD, OpSTORE, OpLOADD, OpSTORED}
ControlOps == {OpJMP, OpJMPZ, OpJMPNZ, OpCALL, OpRET, OpHALT, OpNOP}

executeStackOp(inst, x, maxDepth) ==
    LET st == x.e.stack
        n == Len(st)
    IN  CASE inst.Opcode = OpPUSH -> push(x, FloatValue(inst.Operand), maxDepth)
          [] inst.Opcode = OpPUSHI -> push(x, IntValue(inst.Operand), maxDepth)
          [] inst.Opcode = OpPOP -> [x |-> pop(x).x, err |-> pop(x).err]
          [] inst.Opcode = OpDUP ->
                IF peek(x).err # NoError THEN [x |-> x, err |-> peek(x).err]
                ELSE push(x, peek(x).val, maxDepth)
          [] inst.Opcode = OpSWAP ->
                IF n < 2 THEN [x |-> x, err |-> ErrStackUnderflow]
                ELSE [x |-> [x EXCEPT !.e.stack =
                                 [st EXCEPT ![n] = st[n - 1], ![n - 1] = st[n]]],
                      err |-> NoError]
          [] inst.Opcode = OpOVER ->
                IF n < 2 THEN [x |-> x, err |-> ErrStackUnderflow]
                ELSE push(x, st[n - 1], maxDepth)
          [] inst.Opcode = OpROT ->
                IF n < 3 THEN [x |-> x, err |-> ErrStackUnderflow]
                ELSE [x |-> [x EXCEPT !.e.stack =
                                 [st EXCEPT ![n - 2] = st[n - 1], ![n - 1] = st[n],
                                            ![n] = st[n - 2]]],
                      err |-> NoError]

executeMemoryOp(inst, x, maxDepth) ==
    CASE inst.Opcode = OpLOAD ->
            LET l == Load(x.memory, inst.Operand)
            IN  IF l.err # NoError THEN [x |-> x, err |-> l.err]
                ELSE push(x, l.val, maxDepth)
      [] inst.Opcode = OpSTORE ->
            LET p == pop(x)
            IN  IF p.err # NoError THEN [x |-> p.x, err |-> p.err]
                ELSE LET s == Store(x.memory, inst.Operand, p.val)
                     IN  [x |-> [p.x EXCEPT !.memory = s.mem], err |-> s.err]
      [] inst.Opcode = OpLOADD ->
            LET p == pop(x)
                addrInt == toInt64(p.val)
                l == Load(x.memory, addrInt.val)
            IN  IF p.err # NoError THEN [x |-> p.x, err |-> p.err]
                ELSE IF addrInt.err # NoError THEN [x |-> p.x, err |-> addrInt.err]
                ELSE IF l.err # NoError THEN [x |-> p.x, err |-> l.err]
                ELSE push(p.x, l.val, maxDepth)
      [] inst.Opcode = OpSTORED ->
            LET pv == pop(x)
                pa == pop(pv.x)
                addrInt == toInt64(pa.val)
                s == Store(x.memory, addrInt.val, pv.val)
            IN  IF pv.err # NoError THEN [x |-> pv.x, err |-> pv.err]
                ELSE IF pa.err # NoError THEN [x |-> pa.x, err |-> pa.err]
                ELSE IF addrInt.err # NoError THEN [x |-> pa.x, err |-> addrInt.err]
                ELSE [x |-> [pa.x EXCEPT !.memory = s.mem], err |-> s.err]

executeControlOp(inst, x) ==
    CASE inst.Opcode = OpJMP -> [x |-> jumpTo(x, inst.Operand), err |-> NoError]
      [] inst.Opcode = OpJMPZ ->
            LET p == pop(x)
            IN  IF p.err # NoError THEN [x |-> p.x, err |-> p.err]
                ELSE IF ~toBool(p.val)
                     THEN [x |-> jumpTo(p.x, inst.Operand), err |-> NoError]
                     ELSE [x |-> p.x, err |-> NoError]
      [] inst.Opcode = OpJMPNZ ->
            LET p == pop(x)
            IN  IF p.err # NoError THEN [x |-> p.x, err |-> p.err]
                ELSE IF toBool(p.val)
                     THEN [x |-> jumpTo(p.x, inst.Operand), err |-> NoError]
                     ELSE [x |-> p.x, err |-> NoError]
      [] inst.Opcode = OpCALL -> [x |-> jumpTo(x, inst.Operand), err |-> NoError]
      [] inst.Opcode = OpRET -> [x |-> [x EXCEPT !.e.halted = TRUE], err |-> NoError]
      [] inst.Opcode = OpHALT -> [x |-> [x EXCEPT !.e.halted = TRUE], err |-> NoError]
      [] inst.Opcode = OpNOP -> [x |-> x, err |-> NoError]

\* The stack-to-stack handlers of the dispatch switch.
opFor(opcode, stack) ==
    CASE opcode = OpADD -> opAdd(stack)
      [] opcode = OpSUB -> opSub(stack)
      [] opcode = OpMUL -> opMul(stack)
      [] opcode = OpDIV -> opDiv(stack)
      [] opcode = OpMOD -> opMod(stack)
      [] opcode = OpNEG -> opNeg(stack)
      [] opcode = OpABS -> opAbs(stack)
      [] opcode = OpINC -> opInc(stack)
      [] opcode = OpDEC -> opDec(stack)
      [] opcode = OpAND -> opAnd(stack)
      [] opcode = OpOR -> opOr(stack)
      [] opcode = OpNOT -> opNot(stack)
      [] opcode = OpXOR -> opXor(stack)
      [] opcode = OpEQ -> opEq(stack)
      [] opcode = OpNE -> opNe(stack)
      [] opcode = OpGT -> opGt(stack)
      [] opcode = OpLT -> opLt(stack)
      [] opcode = OpGE -> opGe(stack)
      [] opcode = OpLE -> opLe(stack)
      [] opcode = OpMIN -> opMin(stack)
      [] opcode = OpMAX -> opMax(stack)
      [] opcode = OpFLOOR -> opFloor(stack)
      [] opcode = OpCEIL -> opCeil(stack)
      [] opcode = OpROUND -> opRound(stack)
      [] opcode = OpTRUNC -> opTrunc(stack)

PureOps == {OpADD, OpSUB, OpMUL, OpDIV, OpMOD, OpNEG, OpABS, OpINC, OpDEC,
            OpAND, OpOR, OpNOT, OpXOR, OpEQ, OpNE, OpGT, OpLT, OpGE, OpLE,
            OpMIN, OpMAX, OpFLOOR, OpCEIL, OpROUND, OpTRUNC}

StandardOps == StackOps \cup PureOps \cup MemoryOps \cup ControlOps \cup InexactMathOps

\* The inexact math handlers: the stack effect of mathUnaryOp (or of the
\* binary ATAN2 and POW), with the result kept as an unevaluated term.
opInexact(opcode, stack) ==
    IF opcode \in {71, 75}
    THEN binaryNumeric(stack, LAMBDA a, b : <<opcode, a, b>>)
    ELSE mathUnaryOp(stack, LAMBDA a : <<opcode, a>>)

\* The default branch taking an opcode without a handler for a no-op.
executeCustomSkipsUnknown(inst, x, cfg) ==
    IF inst.Opcode >= FirstCustomOpcode /\ ~cfg.InstructionRegistry.isNil
    THEN LET h == Get(cfg.InstructionRegistry.handlers, inst.Opcode)
         IN  IF h.exists THEN HandlerExecute(h.handler, x, inst.Operand, cfg)
             ELSE [x |-> x, err |-> NoError]
    ELSE [x |-> x, err |-> NoError]

\* The default branch of the dispatch switch: custom instructions.
executeCustom(inst, x, cfg) ==
    IF inst.Opcode >= FirstCustomOpcode /\ ~cfg.InstructionRegistry.isNil
    THEN LET h == Get(cfg.InstructionRegistry.handlers, inst.Opcode)
         IN  IF h.exists THEN HandlerExecute(h.handler, x, inst.Operand, cfg)
             ELSE [x |-> x, err |-> ErrInvalidOpcode]
    ELSE [x |-> x, err |-> ErrInvalidOpcode]

executeInstruction(inst, x, maxDepth, cfg) ==
    CASE inst.Opcode \in StackOps -> executeStackOp(inst, x, maxDepth)
      [] inst.Opcode \in PureOps -> applyOp(x, opFor(inst.Opcode, x.e.stack))
      [] inst.Opcode \in MemoryOps -> executeMemoryOp(inst, x, maxDepth)
      [] inst.Opcode \in ControlOps -> executeControlOp(inst, x)
      [] inst.Opcode \in InexactMathOps ->
            applyOp(x, opInexact(inst.Opcode, x.e.stack))
      [] OTHER -> executeCustom(inst, x, cfg)

----------------------------------------------------------------------------
(* One Execute call, as steps of a run r = [e, memory, userData, phase,    *)
(* result].  The loop is cut at its top (phase "check": the loop condition *)
(* and the three stop conditions) and at the fetch (phase "dispatch": the  *)
(* fetch, the count, the instruction and the PC advance).                  *)

NoResult ==
    [InstructionCount |-> 0, StackDepth |-> 0, Halted |-> FALSE, Error |-> NoError]

Result(ev, halted, err) ==
    [InstructionCount |-> ev.instrCount, StackDepth |-> Len(ev.stack),
     Halted |-> halted, Error |-> err]

\* for !e.halted && e.pc >= 0 && e.pc < len(instructions)
LoopCondition(ev, prog) == ~ev.halted /\ ev.pc >= 0 /\ ev.pc < Len(prog)

LimitReached(ev, o, cfg) ==
    maxInstructions(o, cfg) > 0 /\ ev.instrCount >= maxInstructions(o, cfg)

\* !deadline.IsZero() && time.Now().After(deadline)
DeadlinePassed(o, el) == o.Timeout > 0 /\ el > o.Timeout

\* ctx != nil and <-ctx.Done() is ready
CancelObserved(cs) == cs = "canceled"

\* The entry of Execute handing the scratch map of the last call to the new one.
BeginRunKeepsUserData(ev, mem) ==
    [e |-> ExecuteEntry(ev), memory |-> mem, userData |-> userData,
     phase |-> "check", result |-> NoResult]

BeginRun(ev, mem) ==
    [e |-> ExecuteEntry(ev), memory |-> mem, userData |-> {},
     phase |-> "check", result |-> NoResult]

\* Return that wraps the error in a VMError carrying the failing point.
ReturnWrapped(r, ev, halted, err) ==
    [r EXCEPT !.e = ev, !.phase = "done",
              !.result = Result(ev, halted,
                                IF err = NoError THEN err
                                ELSE VMError(err, ev.pc, ev.instrCount,
                                             Len(ev.stack), 0))]

Return(r, ev, halted, err) ==
    [r EXCEPT !.e = ev, !.phase = "done", !.result = Result(ev, halted, err)]

\* The top of the loop with the stop conditions ahead of the loop condition.
CheckStepLimitFirst(r, prog, o, cfg, el, cs) ==
    IF LimitReached(r.e, o, cfg) THEN Return(r, r.e, FALSE, ErrInstructionLimit)
    ELSE IF DeadlinePassed(o, el) THEN Return(r, r.e, FALSE, ErrTimeout)
    ELSE IF CancelObserved(cs) THEN Return(r, r.e, FALSE, ContextCanceled)
    ELSE IF LoopCondition(r.e, prog) THEN [r EXCEPT !.phase = "dispatch"]
    ELSE LET ev == IF ~r.e.halted /\ r.e.pc >= Len(prog)
                   THEN [r.e EXCEPT !.halted = TRUE] ELSE r.e
         IN  Return(r, ev, ev.halted, NoError)

\* The top of the loop returning an empty Result with the context's error.
CheckStepEmptyResult(r, prog, o, cfg, el, cs) ==
    IF LoopCondition(r.e, prog)
    THEN IF LimitReached(r.e, o, cfg) THEN Return(r, r.e, FALSE, ErrInstructionLimit)
         ELSE IF DeadlinePassed(o, el) THEN Return(r, r.e, FALSE, ErrTimeout)
         ELSE IF CancelObserved(cs)
              THEN [r EXCEPT !.phase = "done",
                             !.result = [NoResult EXCEPT !.Error = ContextCanceled]]
         ELSE [r EXCEPT !.phase = "dispatch"]
    ELSE LET ev == IF ~r.e.halted /\ r.e.pc >= Len(prog)
                   THEN [r.e EXCEPT !.halted = TRUE] ELSE r.e
         IN  Return(r, ev, ev.halted, NoError)

\* The top of the loop polling the deadline and the context on every second
\* instruction only.
CheckStepPollsEveryOther(r, prog, o, cfg, el, cs) ==
    IF LoopCondition(r.e, prog)
    THEN IF LimitReached(r.e, o, cfg) THEN Return(r, r.e, FALSE, ErrInstructionLimit)
         ELSE IF r.e.instrCount % 2 = 0 /\ DeadlinePassed(o, el)
              THEN Return(r, r.e, FALSE, ErrTimeout)
         ELSE IF r.e.instrCount % 2 = 0 /\ CancelObserved(cs)
              THEN Return(r, r.e, FALSE, ContextCanceled)
         ELSE [r EXCEPT !.phase = "dispatch"]
    ELSE LET ev == IF ~r.e.halted /\ r.e.pc >= Len(prog)
                   THEN [r.e EXCEPT !.halted = TRUE] ELSE r.e
         IN  Return(r, ev, ev.halted, NoError)

CheckStep(r, prog, o, cfg, el, cs) ==
    IF LoopCondition(r.e, prog)
    THEN IF LimitReached(r.e, o, cfg) THEN Return(r, r.e, FALSE, ErrInstructionLimit)
         ELSE IF DeadlinePassed(o, el) THEN Return(r, r.e, FALSE, ErrTimeout)
         ELSE IF CancelObserved(cs) THEN Return(r, r.e, FALSE, ContextCanceled)
         ELSE [r EXCEPT !.phase = "dispatch"]
    ELSE LET ev == IF ~r.e.halted /\ r.e.pc >= Len(prog)
                   THEN [r.e EXCEPT !.halted = TRUE] ELSE r.e
         IN  Return(r, ev, ev.halted, NoError)

\* The fetch and dispatch with the PC advanced before the error is tested.
DispatchStepAdvancesFirst(r, prog, o, cfg) ==
    LET inst == prog[r.e.pc + 1]
        x0 == [e |-> [r.e EXCEPT !.instrCount = @ + 1],
               memory |-> r.memory, userData |-> r.userData]
        d == executeInstruction(inst, x0, maxStackDepth(o, cfg), cfg)
        ev == IF ~d.x.e.halted THEN [d.x.e EXCEPT !.pc = @ + 1] ELSE d.x.e
        after == [r EXCEPT !.e = ev, !.memory = d.x.memory,
                           !.userData = d.x.userData]
    IN  IF d.err # NoError THEN Return(after, ev, ev.halted, d.err)
        ELSE [after EXCEPT !.phase = "check"]

\* The fetch and dispatch with the PC advanced after every instruction, a
\* halting one included.
DispatchStepAlwaysAdvances(r, prog, o, cfg) ==
    LET inst == prog[r.e.pc + 1]
        x0 == [e |-> [r.e EXCEPT !.instrCount = @ + 1],
               memory |-> r.memory, userData |-> r.userData]
        d == executeInstruction(inst, x0, maxStackDepth(o, cfg), cfg)
        after == [r EXCEPT !.e = d.x.e, !.memory = d.x.memory,
                           !.userData = d.x.userData]
    IN  IF d.err # NoError THEN Return(after, d.x.e, d.x.e.halted, d.err)
        ELSE [after EXCEPT !.e.pc = @ + 1, !.phase = "check"]

DispatchStep(r, prog, o, cfg) ==
    LET inst == prog[r.e.pc + 1]
        x0 == [e |-> [r.e EXCEPT !.instrCount = @ + 1],
               memory |-> r.memory, userData |-> r.userData]
        d == executeInstruction(inst, x0, maxStackDepth(o, cfg), cfg)
        after == [r EXCEPT !.e = d.x.e, !.memory = d.x.memory,
                           !.userData = d.x.userData]
    IN  IF d.err # NoError THEN Return(after, d.x.e, d.x.e.halted, d.err)
        ELSE IF ~d.x.e.halted
             THEN [after EXCEPT !.e.pc = @ + 1, !.phase = "check"]
             ELSE [after EXCEPT !.phase = "check"]

----------------------------------------------------------------------------
(* Inputs: configurations, options and programs *)

\* The handlers of the host, registered in this order from the first custom
\* opcode on; the handler at FirstCustomOpcode + 7 is unregistered again.
HostHandlers ==
    <<"PUSHOP", "INCR", "SETPC", "JUMP", "HALT", "FAIL", "COUNT", "GONE", "ABORT",
      "WRAP">>

RECURSIVE RegisterEach(_, _)
RegisterEach(names, k) ==
    IF k = 0 THEN NewInstructionRegistry
    ELSE Register(RegisterEach(names, k - 1), FirstCustomOpcode + k - 1, names[k]).reg

HostRegistry ==
    [isNil |-> FALSE,
     handlers |-> Unregister(RegisterEach(HostHandlers, Len(HostHandlers)),
                             FirstCustomOpcode + 7).reg]

NilRegistry == [isNil |-> TRUE, handlers |-> NewInstructionRegistry]

HostConfig ==
    [StackSize |-> 2, DefaultInstrLimit |-> 0, InstructionRegistry |-> HostRegistry]

\* StackSize 0 selects the default; no registry; a default instruction limit.
PlainConfig ==
    [StackSize |-> 0, DefaultInstrLimit |-> 3, InstructionRegistry |-> NilRegistry]

\* ExecuteOptions; Context is the state of opts.Context when it is passed
\* in: "nil", "live" (cancellable, not cancelled yet) or "canceled".
Opt(maxI, maxS, timeout, ctx) ==
    [MaxInstructions |-> maxI, MaxStackDepth |-> maxS, Timeout |-> timeout,
     Context |-> ctx]

OptionSets ==
    {Opt(0, 0, 0, "nil"), Opt(2, 0, 0, "nil"), Opt(0, 1, 0, "nil"),
     Opt(0, 3, 0, "nil"), Opt(0, 0, 1, "nil"), Opt(0, 0, 0, "live"),
     Opt(0, 0, 0, "canceled"), Opt(1, 0, 1, "live")}

\* <<Config, ExecuteOptions>>
Setups ==
    {<<HostConfig, o>> : o \in OptionSets} \cup {<<PlainConfig, Opt(0, 0, 0, "nil")>>}

InstrGroups ==
    {{NewInstruction(OpPUSH, 1), NewInstruction(OpPUSHI, 0), NewInstruction(OpDIV, 0),
      NewInstruction(OpSWAP, 0), NewInstruction(OpLOAD, 0)},
     {NewInstruction(OpPUSH, 1), NewInstruction(OpPUSHI, 0), NewInstruction(OpSTORE, 0),
      NewInstruction(OpSTORE, MemSize), NewInstruction(OpLOADD, 0),
      NewInstruction(OpSTORED, 0)},
     {NewInstruction(OpPUSH, 1), NewInstruction(OpPUSHI, 0), NewInstruction(OpJMPZ, 5),
      NewInstruction(OpJMPNZ, 0), NewInstruction(OpJMP, -1)},
     {NewInstruction(OpJMP, 0), NewInstruction(OpCALL, 2), NewInstruction(OpRET, 0),
      NewInstruction(OpHALT, 0), NewInstruction(OpNOP, 0)},
     {NewInstruction(FirstCustomOpcode, 1), NewInstruction(FirstCustomOpcode + 1, 0),
      NewInstruction(FirstCustomOpcode + 4, 0), NewInstruction(FirstCustomOpcode + 5, 0),
      NewInstruction(FirstCustomOpcode + 6, 0)},
     {NewInstruction(FirstCustomOpcode + 2, 5), NewInstruction(FirstCustomOpcode + 2, -2),
      NewInstruction(FirstCustomOpcode, 1), NewInstruction(FirstCustomOpcode + 7, 0),
      NewInstruction(99, 0)},
     {NewInstruction(FirstCustomOpcode + 2, 1), NewInstruction(FirstCustomOpcode + 3, 2),
      NewInstruction(FirstCustomOpcode + 8, 0), NewInstruction(FirstCustomOpcode + 1, 0),
      NewInstruction(OpPUSH, 1)},
     {NewInstruction(FirstCustomOpcode + 9, 0), NewInstruction(FirstCustomOpcode + 1, 0),
      NewInstruction(FirstCustomOpcode + 5, 0), NewInstruction(OpPUSH, 1),
      NewInstruction(OpHALT, 0)}}

SeqsUpTo(S, n) == UNION {[1 .. k -> S] : k \in 0 .. n}

Programs == UNION {SeqsUpTo(G, MaxProgLen) : G \in InstrGroups}

----------------------------------------------------------------------------
(* The state machine *)

Running == phase \in {"check", "dispatch"}

Current == [e |-> e, memory |-> memory, userData |-> userData,
            phase |-> phase, result |-> result]

SignalSet == CancelObserved(ctxState) \/ DeadlinePassed(opts, elapsed)

\* What is observed of a call: the PC, stack and memory at the last fetch,
\* the memory after it, the number of fetches, of fetches after the cancel
\* signal or deadline, and of fetches of the COUNT handler's opcode, whether
\* the previous call left scratch data, and the last operation on the VM.
NoHist == [p |-> 0, pre |-> <<>>, memPre |-> NewSimpleMemory(MemSize),
           mem |-> NewSimpleMemory(MemSize), dispatched |-> 0, afterSignal |-> 0,
           counts |-> 0, stale |-> FALSE, lastOp |-> "New"]

IsCount(inst, cfg) ==
    /\ inst.Opcode >= FirstCustomOpcode
    /\ ~cfg.InstructionRegistry.isNil
    /\ Get(cfg.InstructionRegistry.handlers, inst.Opcode).handler = "COUNT"

\* The threads calling the shared registry, and a thread in no call.
Threads == {"t1", "t2"}

NoLock == [w |-> "", r |-> {}]

IdleCall == [op |-> "none", opcode |-> 0, handler |-> "", pc |-> "idle",
             ret |-> NoError, free |-> FALSE, clean |-> FALSE]

NoShadow == [handlers |-> NewInstructionRegistry,
             expect |-> [t \in Threads |-> NoError],
             op |-> "none", index |-> 0, value |-> NilValue, ret |-> NoError,
             before |-> NewSimpleMemory(0)]

\* No registry call and no memory call is under way.
UnitParked ==
    /\ registry = [handlers |-> NewInstructionRegistry, mu |-> NoLock]
    /\ calls = [t \in Threads |-> IdleCall]
    /\ shadow = NoShadow

unit == <<registry, calls, shadow>>

\* No toolchain call and no pool.
NoTool == [op |-> "none"]

NoPool == [idle |-> {}]

ToolsParked ==
    /\ tool = NoTool
    /\ pool = NoPool

tools == <<tool, pool>>

\* A constructed VM, and the program and options its host will run.
Init ==
    /\ \E s \in Setups : config = newExecutor(s[1]).config /\ opts = s[2]
    /\ e = newExecutor(config).e
    /\ memory = NewSimpleMemory(MemSize)
    /\ userData = {}
    /\ program \in Programs
    /\ ctxState = opts.Context
    /\ elapsed = 0
    /\ phase = "ready"
    /\ result = NoResult
    /\ fresh = [e |-> newExecutor(config).e, memory |-> memory, userData |-> {},
                phase |-> "ready", result |-> NoResult]
    /\ hist = NoHist
    /\ UnitParked
    /\ ToolsParked

Install(r) ==
    /\ e' = r.e
    /\ memory' = r.memory
    /\ userData' = r.userData
    /\ phase' = r.phase
    /\ result' = r.result

\* vm.Execute(program, NewSimpleMemory(MemSize), opts): entry up to the loop.
Execute ==
    /\ phase \in {"ready", "done"}
    /\ ctxState' = opts.Context
    /\ elapsed' = 0
    /\ Install(BeginRun(e, NewSimpleMemory(MemSize)))
    /\ fresh' = BeginRun(newExecutor(config).e, NewSimpleMemory(MemSize))
    /\ hist' = [NoHist EXCEPT !.lastOp = "Execute", !.stale = userData # {}]
    /\ UNCHANGED <<config, program, opts>>
    /\ UNCHANGED <<unit, tools>>

\* The top of the loop.
Check ==
    /\ phase = "check"
    /\ Install(CheckStep(Current, program, opts, config, elapsed, ctxState))
    /\ fresh' = CheckStep(fresh, program, opts, config, elapsed, ctxState)
    /\ UNCHANGED <<config, program, opts, ctxState, elapsed, hist>>
    /\ UNCHANGED <<unit, tools>>

\* Fetch, count, execute, advance.
Dispatch ==
    /\ phase = "dispatch"
    /\ e.instrCount < MaxSteps
    /\ Install(DispatchStep(Current, program, opts, config))
    /\ fresh' = DispatchStep(fresh, program, opts, config)
    /\ hist' = [hist EXCEPT !.p = e.pc,
                            !.pre = e.stack,
                            !.memPre = memory,
                            !.mem = memory',
                            !.dispatched = @ + 1,
                            !.afterSignal = IF SignalSet THEN @ + 1 ELSE @,
                            !.counts = IF IsCount(program[e.pc + 1], config)
                                       THEN @ + 1 ELSE @]
    /\ UNCHANGED <<config, program, opts, ctxState, elapsed>>
    /\ UNCHANGED <<unit, tools>>

\* vm.Reset() between calls.
ResetVM ==
    /\ phase \in {"ready", "done"}
    /\ e' = Reset(e)
    /\ phase' = "ready"
    /\ hist' = [hist EXCEPT !.lastOp = "Reset"]
    /\ UNCHANGED <<config, memory, userData, program, opts, ctxState, elapsed,
                   result, fresh>>
    /\ UNCHANGED <<unit, tools>>

\* The host cancels the context of the running call.
Cancel ==
    /\ Running
    /\ ctxState = "live"
    /\ ctxState' = "canceled"
    /\ UNCHANGED <<config, e, memory, userData, program, opts, elapsed, phase,
                   result, fresh, hist>>
    /\ UNCHANGED <<unit, tools>>

\* The clock advances while a call with a deadline runs.
Tick ==
    /\ Running
    /\ opts.Timeout > 0
    /\ elapsed < MaxTime
    /\ elapsed' = elapsed + 1
    /\ UNCHANGED <<config, e, memory, userData, program, opts, ctxState, phase,
                   result, fresh, hist>>
    /\ UNCHANGED <<unit, tools>>

Next == Execute \/ Check \/ Dispatch \/ ResetVM \/ Cancel \/ Tick

Spec == Init /\ [][Next]_vars

----------------------------------------------------------------------------
(* The registry under concurrent callers (registry.go).  Each thread makes  *)
(* one call at a time; a call is cut at the lock, at the test of the map,   *)
(* at the write to the map and at the unlock.  mu is the RWMutex: the       *)
(* thread holding the write lock and the set of threads holding read locks. *)

RegOpcodes == {FirstCustomOpcode - 1, FirstCustomOpcode, FirstCustomOpcode + 1}
RegHandlers == {"A", "B"}

RegistryCalls ==
    {[op |-> "Register", opcode |-> o, handler |-> h] :
        o \in RegOpcodes, h \in RegHandlers}
    \cup {[op |-> k, opcode |-> o, handler |-> ""] :
            k \in {"Unregister", "Get"}, o \in RegOpcodes}
    \cup {[op |-> k, opcode |-> 0, handler |-> ""] : k \in {"List", "Names"}}

Writers == {"Register", "Unregister"}

\* r.mu.Lock() can be taken with every lock taken.
CanLockAlways(mu) == TRUE

\* r.mu.Lock() can be taken
CanLock(mu) == mu.w = "" /\ mu.r = {}

\* r.mu.RLock() can be taken
CanRLock(mu) == mu.w = ""

\* The engine is idle while the registry or a memory is exercised.
EngineParked ==
    /\ config = newExecutor(PlainConfig).config
    /\ e = newExecutor(PlainConfig).e
    /\ userData = {}
    /\ program = <<>>
    /\ opts = Opt(0, 0, 0, "nil")
    /\ ctxState = "nil"
    /\ elapsed = 0
    /\ phase = "ready"
    /\ result = NoResult
    /\ fresh = [e |-> newExecutor(PlainConfig).e, memory |-> NewSimpleMemory(MemSize),
                userData |-> {}, phase |-> "ready", result |-> NoResult]
    /\ hist = NoHist

\* NewInstructionRegistry(), shared by the threads.
RegistryInit ==
    /\ EngineParked
    /\ memory = NewSimpleMemory(MemSize)
    /\ UnitParked
    /\ ToolsParked

\* A thread enters a call.  Register tests the opcode before it locks.
CallBegin(t) ==
    /\ calls[t].pc = "idle"
    /\ \E c \in RegistryCalls :
          LET reserved == c.op = "Register" /\ IsReserved(c.opcode)
          IN  /\ calls' = [calls EXCEPT ![t] =
                     [op |-> c.op, opcode |-> c.opcode, handler |-> c.handler,
                      pc |-> IF reserved THEN "done" ELSE "lock",
                      ret |-> IF reserved THEN ErrReservedOpcode ELSE NoError,
                      free |-> c.opcode \notin DOMAIN registry.handlers,
                      clean |-> TRUE]]
              /\ shadow' = [shadow EXCEPT !.expect[t] =
                     IF reserved
                     THEN Register(shadow.handlers, c.opcode, c.handler).err
                     ELSE NoError]
    /\ UNCHANGED <<registry, memory>>
    /\ UNCHANGED <<engine, tools>>

\* r.mu.Lock()
Lock(t) ==
    /\ calls[t].pc = "lock"
    /\ calls[t].op \in Writers
    /\ CanLock(registry.mu)
    /\ registry' = [registry EXCEPT !.mu.w = t]
    /\ calls' = [calls EXCEPT ![t].pc = "body"]
    /\ UNCHANGED <<shadow, memory>>
    /\ UNCHANGED <<engine, tools>>

\* r.mu.RLock()
RLock(t) ==
    /\ calls[t].pc = "lock"
    /\ calls[t].op \notin Writers
    /\ CanRLock(registry.mu)
    /\ registry' = [registry EXCEPT !.mu.r = @ \cup {t}]
    /\ calls' = [calls EXCEPT ![t].pc = "body"]
    /\ UNCHANGED <<shadow, memory>>
    /\ UNCHANGED <<engine, tools>>

\* Register: the test of the map.  The call takes its place among the calls here.
RegisterCheck(t) ==
    /\ calls[t].pc = "body"
    /\ calls[t].op = "Register"
    /\ calls' = [calls EXCEPT ![t] =
          IF RegisterRefused(registry.handlers, calls[t].opcode)
          THEN [@ EXCEPT !.ret = ErrAlreadyRegistered, !.pc = "unlock"]
          ELSE [@ EXCEPT !.pc = "write"]]
    /\ LET a == Register(shadow.handlers, calls[t].opcode, calls[t].handler)
       IN  shadow' = [shadow EXCEPT !.handlers = a.reg, !.expect[t] = a.err]
    /\ UNCHANGED <<registry, memory>>
    /\ UNCHANGED <<engine, tools>>

\* Register: r.handlers[opcode] = handler; return nil
RegisterWrite(t) ==
    /\ calls[t].pc = "write"
    /\ calls[t].op = "Register"
    /\ registry' = [registry EXCEPT
          !.handlers = Bind(@, calls[t].opcode, calls[t].handler)]
    /\ calls' = [calls EXCEPT ![t].ret = NoError, ![t].pc = "unlock"]
    /\ UNCHANGED <<shadow, memory>>
    /\ UNCHANGED <<engine, tools>>

\* Unregister: the test of the map.
UnregisterCheck(t) ==
    /\ calls[t].pc = "body"
    /\ calls[t].op = "Unregister"
    /\ calls' = [calls EXCEPT ![t] =
          IF UnregisterRefused(registry.handlers, calls[t].opcode)
          THEN [@ EXCEPT !.ret = ErrNotRegistered, !.pc = "unlock"]
          ELSE [@ EXCEPT !.pc = "write"]]
    /\ LET a == Unregister(shadow.handlers, calls[t].opcode)
       IN  shadow' = [shadow EXCEPT !.handlers = a.reg, !.expect[t] = a.err]
    /\ UNCHANGED <<registry, memory>>
    /\ UNCHANGED <<engine, tools>>

\* Unregister: delete(r.handlers, opcode); return nil
UnregisterDelete(t) ==
    /\ calls[t].pc = "write"
    /\ calls[t].op = "Unregister"
    /\ registry' = [registry EXCEPT !.handlers = Unbind(@, calls[t].opcode)]
    /\ calls' = [calls EXCEPT ![t].ret = NoError, ![t].pc = "unlock"]
    /\ UNCHANGED <<shadow, memory>>
    /\ UNCHANGED <<engine, tools>>

ReadCall(op, handlers, opcode) ==
    CASE op = "Get" -> Get(handlers, opcode)
      [] op = "List" -> List(handlers)
      [] op = "Names" -> Names(handlers)

\* Get, List, Names: the read of the map.
Read(t) ==
    /\ calls[t].pc = "body"
    /\ calls[t].op \in {"Get", "List", "Names"}
    /\ calls' = [calls EXCEPT
          ![t].ret = ReadCall(calls[t].op, registry.handlers, calls[t].opcode),
          ![t].pc = "unlock"]
    /\ shadow' = [shadow EXCEPT
          !.expect[t] = ReadCall(calls[t].op, shadow.handlers, calls[t].opcode)]
    /\ UNCHANGED <<registry, memory>>
    /\ UNCHANGED <<engine, tools>>

\* defer r.mu.Unlock() / defer r.mu.RUnlock()
Unlock(t) ==
    /\ calls[t].pc = "unlock"
    /\ registry' = IF calls[t].op \in Writers
                   THEN [registry EXCEPT !.mu.w = ""]
                   ELSE [registry EXCEPT !.mu.r = @ \ {t}]
    /\ calls' = [calls EXCEPT ![t].pc = "done"]
    /\ UNCHANGED <<shadow, memory>>
    /\ UNCHANGED <<engine, tools>>

\* The caller takes the result; the calls still under way have now seen
\* another call return.
CallReturn(t) ==
    /\ calls[t].pc = "done"
    /\ calls' = [u \in Threads |->
          IF u = t THEN IdleCall
          ELSE IF calls[u].pc # "idle" THEN [calls[u] EXCEPT !.clean = FALSE]
          ELSE calls[u]]
    /\ shadow' = [shadow EXCEPT !.expect[t] = NoError]
    /\ UNCHANGED <<registry, memory>>
    /\ UNCHANGED <<engine, tools>>

RegistryNext ==
    \E t \in Threads :
        \/ CallBegin(t)
        \/ Lock(t)
        \/ RLock(t)
        \/ RegisterCheck(t)
        \/ RegisterWrite(t)
        \/ UnregisterCheck(t)
        \/ UnregisterDelete(t)
        \/ Read(t)
        \/ Unlock(t)
        \/ CallReturn(t)

RegistrySpec == RegistryInit /\ [][RegistryNext]_vars

----------------------------------------------------------------------------
(* A SimpleMemory under the calls of a host (memory.go): Load and Store at  *)
(* indexes inside and outside the memory.                                   *)

MemIndexes == -1 .. MemSize + 2
MemValues == {FloatValue(1), IntValue(0), BoolValue(TRUE)}

\* NewSimpleMemory(n)
MemoryInit ==
    /\ EngineParked
    /\ UnitParked
    /\ ToolsParked
    /\ \E n \in 0 .. MemSize + 1 : memory = NewSimpleMemory(n)

\* memory.Load(i)
MemLoad ==
    \E i \in MemIndexes :
        /\ shadow' = [shadow EXCEPT !.op = "Load", !.index = i, !.value = NilValue,
                                    !.ret = Load(memory, i), !.before = memory]
        /\ UNCHANGED <<memory, registry, calls>>
        /\ UNCHANGED <<engine, tools>>

\* memory.Store(i, v)
MemStore ==
    \E i \in MemIndexes, v \in MemValues :
        LET st == Store(memory, i, v)
        IN  /\ memory' = st.mem
            /\ shadow' = [shadow EXCEPT !.op = "Store", !.index = i, !.value = v,
                                        !.ret = [val |-> NilValue, err |-> st.err],
                                        !.before = memory]
            /\ UNCHANGED <<registry, calls>>
            /\ UNCHANGED <<engine, tools>>

MemoryNext == MemLoad \/ MemStore

MemorySpec == MemoryInit /\ [][MemoryNext]_vars

----------------------------------------------------------------------------
(* The binary codec (encoding.go).  A byte is an integer in 0 .. 255 and a  *)
(* buffer a sequence of bytes.  A uint32 is carried as its two 16-bit       *)
(* halves, so that the arithmetic of the source wraps at 2^32 as it does    *)
(* there; an int32 is an integer.                                           *)

MaxEncLen == 2
MaxBufLen == 9

ErrInvalidProgram == Sentinel("invalid program")
ErrUnresolvedLabel == Sentinel("unresolved label")

\* fmt.Errorf("%w: ...", err): errors.Is finds err in it.
Errorf(err, text) == [Err |-> err.Err, vmerr |-> <<>>, text |-> text]

Unwraps(err, target) == err.Err = target.Err /\ err # NoError

NilProgram == [isNil |-> TRUE, instructions |-> <<>>]

NewProgram(instructions) == [isNil |-> FALSE, instructions |-> instructions]

\* uint32(n) of an int n, 0 <= n < 2^31
U32(n) == [hi |-> n \div 65536, lo |-> n % 65536]

\* uint32(x) of an int32 x: the two's complement.
Uint32OfInt32(x) ==
    IF x >= 0 THEN U32(x)
    ELSE LET y == (x + 2147483647) + 1
         IN  [hi |-> y \div 65536 + 32768, lo |-> y % 65536]

\* int32(u) of a uint32 u
Int32OfUint32(u) ==
    IF u.hi < 32768 THEN u.hi * 65536 + u.lo
    ELSE (((u.hi - 32768) * 65536 + u.lo) - 2147483647) - 1

\* u * k + c in uint32 arithmetic, for small k and c
U32MulAdd(u, k, c) ==
    LET lo == u.lo * k + c
        hi == u.hi * k + lo \div 65536
    IN  [hi |-> hi % 65536, lo |-> lo % 65536]

\* binary.BigEndian.PutUint32
PutUint32BigEndian(u) == <<u.hi \div 256, u.hi % 256, u.lo \div 256, u.lo % 256>>

\* binary.LittleEndian.PutUint32
PutUint32(u) == <<u.lo % 256, u.lo \div 256, u.hi % 256, u.hi \div 256>>

\* binary.LittleEndian.Uint32
Uint32(b) == [hi |-> b[3] + 256 * b[4], lo |-> b[1] + 256 * b[2]]

RECURSIVE encodeInstructions(_)
encodeInstructions(instructions) ==
    IF instructions = <<>> THEN <<>>
    ELSE <<Head(instructions).Opcode>>
         \o PutUint32(Uint32OfInt32(Head(instructions).Operand))
         \o encodeInstructions(Tail(instructions))

EncodeProgram(prog) ==
    IF prog.isNil
    THEN [bytecode |-> <<>>, err |-> Errorf(ErrInvalidProgram, "program is nil")]
    ELSE [bytecode |-> PutUint32(U32(Len(prog.instructions)))
                       \o encodeInstructions(prog.instructions),
          err |-> NoError]

\* The decoding loop from instruction i on, instrCount instructions being
\* wanted: a read past the end of the buffer panics.
RECURSIVE decodeInstructions(_, _, _)
decodeInstructions(data, instrCount, i) ==
    LET offset == 4 + 5 * i
    IN  IF U32(i) = instrCount THEN [instructions |-> <<>>, panic |-> FALSE]
        ELSE IF offset + 5 > Len(data) THEN [instructions |-> <<>>, panic |-> TRUE]
        ELSE LET rest == decodeInstructions(data, instrCount, i + 1)
                 inst == NewInstruction(data[offset + 1],
                             Int32OfUint32(Uint32(SubSeq(data, offset + 2, offset + 5))))
             IN  [instructions |-> <<inst>> \o rest.instructions,
                  panic |-> rest.panic]

\* The length test of DecodeProgram: uint32(len(data)) != 4 + instrCount*5.
LengthMismatch(data, instrCount) == U32(Len(data)) # U32MulAdd(instrCount, 5, 4)

DecodeProgram(data) ==
    IF Len(data) < 4
    THEN [program |-> NilProgram, panic |-> FALSE,
          err |-> Errorf(ErrInvalidProgram, "bytecode too short")]
    ELSE LET instrCount == Uint32(SubSeq(data, 1, 4))
             d == decodeInstructions(data, instrCount, 0)
         IN  IF LengthMismatch(data, instrCount)
             THEN [program |-> NilProgram, panic |-> FALSE,
                   err |-> Errorf(ErrInvalidProgram, "bytecode length mismatch")]
             ELSE IF d.panic
             THEN [program |-> NilProgram, panic |-> TRUE, err |-> NoError]
             ELSE [program |-> NewProgram(d.instructions), panic |-> FALSE,
                   err |-> NoError]

\* The programs and buffers the codec is given.
CodecOperands == {0, 42, -42, 2147483647, (0 - 2147483647) - 1}

CodecInstructions ==
    {NewInstruction(op, x) : op \in {OpPUSH, OpADD, 255}, x \in CodecOperands}

CodecPrograms ==
    {NilProgram} \cup {NewProgram(p) : p \in SeqsUpTo(CodecInstructions, MaxEncLen)}

\* Header bytes: the counts 0, 1, 2 and 256, and counts c for which 4 + 5c
\* passes 2^32.
HeaderBytes == {0, 1, 2, 51, 52, 204, 205}

Fill(k, b) == [i \in 1 .. k |-> b]

Buffers ==
    {Fill(k, 0) : k \in 0 .. 3}
    \cup {h \o Fill(k, b) : h \in [1 .. 4 -> HeaderBytes], k \in 0 .. MaxBufLen - 4,
                            b \in {0, 255}}

\* No engine, registry or pool is involved in a toolchain call.
ToolInit ==
    /\ EngineParked
    /\ memory = NewSimpleMemory(MemSize)
    /\ UnitParked
    /\ tool = NoTool
    /\ pool = NoPool

\* EncodeProgram(p).  A behaviour is one call of the host, or an
\* EncodeProgram and the DecodeProgram of its bytes.
Encode ==
    /\ tool.op = "none"
    /\ \E p \in CodecPrograms :
          tool' = [op |-> "Encode", program |-> p, data |-> <<>>,
                   ret |-> EncodeProgram(p)]
    /\ UNCHANGED <<engine, memory, unit, pool>>

\* DecodeProgram of the bytes the last EncodeProgram returned
DecodeEncoded ==
    /\ tool.op = "Encode"
    /\ tool.ret.err = NoError
    /\ tool' = [op |-> "DecodeEncoded", program |-> tool.program,
                data |-> tool.ret.bytecode,
                ret |-> DecodeProgram(tool.ret.bytecode)]
    /\ UNCHANGED <<engine, memory, unit, pool>>

\* DecodeProgram(data) of any buffer
Decode ==
    /\ tool.op = "none"
    /\ \E data \in Buffers :
          tool' = [op |-> "Decode", program |-> NilProgram, data |-> data,
                   ret |-> DecodeProgram(data)]
    /\ UNCHANGED <<engine, memory, unit, pool>>

CodecNext == Encode \/ DecodeEncoded \/ Decode

CodecSpec == ToolInit /\ [][CodecNext]_vars

----------------------------------------------------------------------------
(* The assembler's lexer (internal/asm/lexer.go).  A source text is a       *)
(* sequence of characters, each a one-character string; the NUL byte that   *)
(* peek returns at the end of the source is the empty string.               *)

Upper ==
    <<"A", "B", "C", "D", "E", "F", "G", "H", "I", "J", "K", "L", "M",
      "N", "O", "P", "Q", "R", "S", "T", "U", "V", "W", "X", "Y", "Z">>

Lower ==
    <<"a", "b", "c", "d", "e", "f", "g", "h", "i", "j", "k", "l", "m",
      "n", "o", "p", "q", "r", "s", "t", "u", "v", "w", "x", "y", "z">>

Digits == <<"0", "1", "2", "3", "4", "5", "6", "7", "8", "9">>

Range(s) == {s[i] : i \in DOMAIN s}

IsDigit(ch) == ch \in Range(Digits)

IsLetter(ch) == ch \in Range(Upper) \cup Range(Lower)

\* strings.ToUpper
ToUpperChar(ch) ==
    IF ch \in Range(Lower) THEN Upper[CHOOSE i \in DOMAIN Lower : Lower[i] = ch]
    ELSE ch

ToUpper(s) == [i \in DOMAIN s |-> ToUpperChar(s[i])]

Contains(s, ch) == ch \in Range(s)

\* The text of an error: what it says, about what, and the line and column
\* it cites (line 0: the text cites no line).
Msg(text, arg, line, column) ==
    [text |-> text, arg |-> arg, line |-> line, column |-> column]

NoMsg == Msg("nil", <<>>, 0, 0)

Token(typ, value, line, col) ==
    [Type |-> typ, Value |-> value, Line |-> line, Column |-> col]

NewLexer(source) ==
    [source |-> source, pos |-> 0, line |-> 1, column |-> 1, tokens |-> <<>>]

lexPeek(l) == IF l.pos >= Len(l.source) THEN "" ELSE l.source[l.pos + 1]

lexAdvance(l) ==
    IF l.pos < Len(l.source) THEN [l EXCEPT !.pos = @ + 1, !.column = @ + 1] ELSE l

emitTokenAt(l, typ, value, line, col) ==
    [l EXCEPT !.tokens = Append(@, Token(typ, value, line, col))]

emitToken(l, typ, value) == emitTokenAt(l, typ, value, l.line, l.column)

RECURSIVE scanComment(_)
scanComment(l) ==
    IF l.pos < Len(l.source) /\ l.source[l.pos + 1] # "\n"
    THEN scanComment([l EXCEPT !.pos = @ + 1, !.column = @ + 1])
    ELSE l

\* The loops of scanNumber and scanIdentOrLabel: advance while the
\* character is of the kind.
RECURSIVE scanDigits(_)
scanDigits(l) ==
    IF l.pos < Len(l.source) /\ (IsDigit(lexPeek(l)) \/ lexPeek(l) = ".")
    THEN scanDigits(lexAdvance(l))
    ELSE l

RECURSIVE scanIdentChars(_)
scanIdentChars(l) ==
    IF l.pos < Len(l.source)
       /\ (IsLetter(lexPeek(l)) \/ IsDigit(lexPeek(l)) \/ lexPeek(l) = "_")
    THEN scanIdentChars(lexAdvance(l))
    ELSE l

Dots(value) == Cardinality({i \in DOMAIN value : value[i] = "."})

\* strconv.ParseFloat accepts the digits and dots that scanNumber collects
\* when they hold one dot; strconv.ParseInt accepts digits alone (the
\* literals of the model are within int64).
ParseFloatFails(value) == Dots(value) > 1

ParseIntFails(value) == Dots(value) > 0

scanNumber(l) ==
    LET start == l.pos
        startCol == l.column
        l1 == IF lexPeek(l) = "-" THEN lexAdvance(l) ELSE l
        l2 == scanDigits(l1)
        value == SubSeq(l.source, start + 1, l2.pos)
    IN  IF Contains(value, ".") /\ ParseFloatFails(value)
        THEN [l |-> l2, err |-> Msg("invalid float", value, l2.line, startCol)]
        ELSE IF ~Contains(value, ".") /\ ParseIntFails(value)
        THEN [l |-> l2, err |-> Msg("invalid integer", value, l2.line, startCol)]
        ELSE [l |-> emitTokenAt(l2, "NUMBER", value, l2.line, startCol),
              err |-> NoMsg]

scanIdentOrLabel(l) ==
    LET start == l.pos
        startCol == l.column
        l1 == scanIdentChars(l)
        value == SubSeq(l.source, start + 1, l1.pos)
    IN  IF l1.pos < Len(l1.source) /\ lexPeek(l1) = ":"
        THEN [l |-> emitTokenAt(lexAdvance(l1), "LABEL", value, l1.line, startCol),
              err |-> NoMsg]
        ELSE [l |-> emitTokenAt(l1, "IDENT", value, l1.line, startCol),
              err |-> NoMsg]

scanToken(l) ==
    LET ch == lexPeek(l)
    IN  IF ch \in {" ", "\t", "\r"} THEN [l |-> lexAdvance(l), err |-> NoMsg]
        ELSE IF ch = "\n"
        THEN [l |-> [lexAdvance(emitToken(l, "NEWLINE", <<"\n">>))
                       EXCEPT !.line = @ + 1, !.column = 1],
              err |-> NoMsg]
        ELSE IF ch \in {";", "#"} THEN [l |-> scanComment(l), err |-> NoMsg]
        ELSE IF \/ IsDigit(ch)
                \/ /\ ch = "-"
                   /\ l.pos + 1 < Len(l.source)
                   /\ IsDigit(l.source[l.pos + 2])
        THEN scanNumber(l)
        ELSE IF IsLetter(ch) \/ ch = "_" THEN scanIdentOrLabel(l)
        ELSE [l |-> l, err |-> Msg("unexpected character", <<ch>>, l.line, l.column)]

RECURSIVE scanTokens(_)
scanTokens(l) ==
    IF l.pos < Len(l.source)
    THEN LET s == scanToken(l)
         IN  IF s.err # NoMsg THEN [tokens |-> <<>>, err |-> s.err]
             ELSE scanTokens(s.l)
    ELSE [tokens |-> Append(l.tokens, Token("EOF", <<>>, l.line, l.column)),
          err |-> NoMsg]

Tokenize(source) == scanTokens(NewLexer(source))

----------------------------------------------------------------------------
(* The assembler's parser (internal/asm/parser.go) *)

NoOperand == [Type |-> "none", Number |-> 0, FloatValue |-> 0, IsFloat |-> FALSE,
              Label |-> <<>>]

\* strconv.ParseInt of an optional sign and digits
RECURSIVE ParseDigits(_, _)
ParseDigits(s, acc) ==
    IF s = <<>> THEN acc
    ELSE ParseDigits(Tail(s),
                     acc * 10 + (CHOOSE d \in 0 .. 9 : Digits[d + 1] = Head(s)))

ParseInt(value) ==
    IF Head(value) = "-" THEN 0 - ParseDigits(Tail(value), 0)
    ELSE ParseDigits(value, 0)

\* strconv.ParseFloat, as far as the assembler uses the float: int32(v) of
\* the builder truncates it toward zero, to the integer before the dot.
ParseFloatTruncated(value) ==
    LET dot == CHOOSE i \in DOMAIN value : value[i] = "."
    IN  ParseInt(SubSeq(value, 1, dot - 1))

NewParser(tokens) == [tokens |-> tokens, current |-> 0, statements |-> <<>>]

parPeek(p) ==
    IF p.current >= Len(p.tokens) THEN Token("EOF", <<>>, 0, 0)
    ELSE p.tokens[p.current + 1]

parAdvance(p) ==
    IF p.current < Len(p.tokens) THEN [p EXCEPT !.current = @ + 1] ELSE p

isAtEnd(p) ==
    IF p.current >= Len(p.tokens) THEN TRUE
    ELSE p.tokens[p.current + 1].Type = "EOF"

RECURSIVE skipNewlines(_)
skipNewlines(p) ==
    IF ~isAtEnd(p) /\ parPeek(p).Type = "NEWLINE" THEN skipNewlines(parAdvance(p))
    ELSE p

parseLabelDef(p) ==
    LET token == parPeek(p)
        p1 == parAdvance(p)
        stmt == [Type |-> "Label", Label |-> token.Value, Opcode |-> <<>>,
                 Operand |-> NoOperand, Line |-> token.Line, Column |-> token.Column]
    IN  [p |-> IF parPeek(p1).Type = "NEWLINE" THEN parAdvance(p1) ELSE p1,
         stmt |-> <<stmt>>, err |-> NoMsg]

parseOperand(p) ==
    LET token == parPeek(p)
    IN  CASE token.Type = "NUMBER" ->
                IF ~ParseIntFails(token.Value)
                THEN [p |-> parAdvance(p), err |-> NoMsg,
                      operand |-> [NoOperand EXCEPT !.Type = "Number",
                                       !.Number = ParseInt(token.Value)]]
                ELSE IF ParseFloatFails(token.Value)
                THEN [p |-> parAdvance(p), operand |-> NoOperand,
                      err |-> Msg("invalid number", token.Value, token.Line,
                                  token.Column)]
                ELSE [p |-> parAdvance(p), err |-> NoMsg,
                      operand |-> [NoOperand EXCEPT !.Type = "Number",
                                       !.FloatValue = ParseFloatTruncated(token.Value),
                                       !.IsFloat = TRUE]]
          [] token.Type = "IDENT" ->
                [p |-> parAdvance(p), err |-> NoMsg,
                 operand |-> [NoOperand EXCEPT !.Type = "Label",
                                               !.Label = token.Value]]
          [] OTHER ->
                [p |-> p, operand |-> NoOperand,
                 err |-> Msg("expected operand", <<token.Type>>, token.Line,
                             token.Column)]

parseInstruction(p) ==
    LET token == parPeek(p)
        p1 == parAdvance(p)
        stmt == [Type |-> "Instruction", Label |-> <<>>, Opcode |-> token.Value,
                 Operand |-> NoOperand, Line |-> token.Line, Column |-> token.Column]
        more == ~isAtEnd(p1) /\ parPeek(p1).Type \notin {"NEWLINE", "EOF"}
        o == parseOperand(p1)
        p2 == IF more THEN o.p ELSE p1
    IN  IF more /\ o.err # NoMsg THEN [p |-> p2, stmt |-> <<>>, err |-> o.err]
        ELSE [p |-> IF parPeek(p2).Type = "NEWLINE" THEN parAdvance(p2) ELSE p2,
              stmt |-> <<IF more THEN [stmt EXCEPT !.Operand = o.operand] ELSE stmt>>,
              err |-> NoMsg]

\* A statement, none (<<>>) or an error.
parseStatement(p) ==
    LET token == parPeek(p)
    IN  CASE token.Type = "LABEL" -> parseLabelDef(p)
          [] token.Type = "IDENT" -> parseInstruction(p)
          [] token.Type = "NEWLINE" -> [p |-> parAdvance(p), stmt |-> <<>>, err |-> NoMsg]
          [] token.Type = "EOF" -> [p |-> p, stmt |-> <<>>, err |-> NoMsg]
          [] OTHER -> [p |-> p, stmt |-> <<>>,
                       err |-> Msg("unexpected token", <<token.Type>>, token.Line,
                                   token.Column)]

RECURSIVE parseStatements(_)
parseStatements(p) ==
    IF isAtEnd(p) THEN [statements |-> p.statements, err |-> NoMsg]
    ELSE LET s == parseStatement(p)
         IN  IF s.err # NoMsg THEN [statements |-> <<>>, err |-> s.err]
             ELSE parseStatements(skipNewlines(
                      [s.p EXCEPT !.statements = @ \o s.stmt]))

Parse(tokens) == parseStatements(skipNewlines(NewParser(tokens)))

----------------------------------------------------------------------------
(* The program builder (builder.go) *)

NewProgramBuilder ==
    [instructions |-> <<>>, labels |-> [n \in {} |-> 0], references |-> <<>>]

\* b.instructions = append(b.instructions, NewInstruction(opcode, operand)):
\* the body of every emitting method (Push, PushInt, Pop, ..., Custom).
Emit(b, opcode, operand) ==
    [b EXCEPT !.instructions = Append(@, NewInstruction(opcode, operand))]

\* A label bound to the index of the last instruction emitted.
LabelBindsLast(b, name) ==
    [b EXCEPT !.labels = [n \in DOMAIN @ \cup {name} |->
                             IF n = name THEN Len(b.instructions) - 1 ELSE @[n]]]

\* b.labels[name] = len(b.instructions)
Label(b, name) ==
    [b EXCEPT !.labels = [n \in DOMAIN @ \cup {name} |->
                             IF n = name THEN Len(b.instructions) ELSE @[n]]]

\* Jmp, JmpZ, JmpNZ and Call: a placeholder operand and a reference.
labelRef(b, opcode, label) ==
    [b EXCEPT !.instructions = Append(@, NewInstruction(opcode, 0)),
              !.references = Append(@, [labelName |-> label,
                                        instIndex |-> Len(b.instructions)])]

Jmp(b, label) == labelRef(b, OpJMP, label)
JmpZ(b, label) == labelRef(b, OpJMPZ, label)
JmpNZ(b, label) == labelRef(b, OpJMPNZ, label)
Call(b, label) == labelRef(b, OpCALL, label)

\* The loop of Build over b.references
RECURSIVE resolveSkipsUnbound(_, _, _)
resolveSkipsUnbound(instructions, labels, refs) ==
    IF refs = <<>> THEN [instructions |-> instructions, err |-> NoError]
    ELSE IF Head(refs).labelName \notin DOMAIN labels
    THEN resolveSkipsUnbound(instructions, labels, Tail(refs))
    ELSE resolveSkipsUnbound(
             [instructions EXCEPT ![Head(refs).instIndex + 1].Operand =
                                      labels[Head(refs).labelName]],
             labels, Tail(refs))

RECURSIVE resolve(_, _, _)
resolve(instructions, labels, refs) ==
    IF refs = <<>> THEN [instructions |-> instructions, err |-> NoError]
    ELSE IF Head(refs).labelName \notin DOMAIN labels
    THEN [instructions |-> instructions,
          err |-> Errorf(ErrUnresolvedLabel, Head(refs).labelName)]
    ELSE resolve([instructions EXCEPT ![Head(refs).instIndex + 1].Operand =
                                         labels[Head(refs).labelName]],
                 labels, Tail(refs))

\* The symbol tables Build can make of the labels: address -> name, one of
\* the names when several labels have the address (the order of the map
\* iteration decides).
SymbolTables(labels) ==
    LET addrs == {labels[n] : n \in DOMAIN labels}
    IN  {t \in [addrs -> DOMAIN labels] : \A a \in addrs : labels[t[a]] = a}

Build(b) ==
    LET r == resolve(b.instructions, b.labels, b.references)
    IN  IF r.err # NoError THEN [program |-> NilProgram, err |-> r.err]
        ELSE [program |-> [isNil |-> FALSE, instructions |-> r.instructions,
                           labels |-> b.labels],
              err |-> NoError]

----------------------------------------------------------------------------
(* The assembler's code generation (assembler.go) *)

Mnemonics ==
    <<<<<<"P", "U", "S", "H">>, OpPUSH>>,
      <<<<"P", "U", "S", "H", "I">>, OpPUSHI>>,
      <<<<"P", "O", "P">>, OpPOP>>,
      <<<<"D", "U", "P">>, OpDUP>>,
      <<<<"S", "W", "A", "P">>, OpSWAP>>,
      <<<<"O", "V", "E", "R">>, OpOVER>>,
      <<<<"R", "O", "T">>, OpROT>>,
      <<<<"A", "D", "D">>, OpADD>>,
      <<<<"S", "U", "B">>, OpSUB>>,
      <<<<"M", "U", "L">>, OpMUL>>,
      <<<<"D", "I", "V">>, OpDIV>>,
      <<<<"M", "O", "D">>, OpMOD>>,
      <<<<"N", "E", "G">>, OpNEG>>,
      <<<<"A", "B", "S">>, OpABS>>,
      <<<<"I", "N", "C">>, OpINC>>,
      <<<<"D", "E", "C">>, OpDEC>>,
      <<<<"A", "N", "D">>, OpAND>>,
      <<<<"O", "R">>, OpOR>>,
      <<<<"N", "O", "T">>, OpNOT>>,
      <<<<"X", "O", "R">>, OpXOR>>,
      <<<<"E", "Q">>, OpEQ>>,
      <<<<"N", "E">>, OpNE>>,
      <<<<"G", "T">>, OpGT>>,
      <<<<"L", "T">>, OpLT>>,
      <<<<"G", "E">>, OpGE>>,
      <<<<"L", "E">>, OpLE>>,
      <<<<"L", "O", "A", "D">>, OpLOAD>>,
      <<<<"S", "T", "O", "R", "E">>, OpSTORE>>,
      <<<<"L", "O", "A", "D", "D">>, OpLOADD>>,
      <<<<"S", "T", "O", "R", "E", "D">>, OpSTORED>>,
      <<<<"J", "M", "P">>, OpJMP>>,
      <<<<"J", "M", "P", "Z">>, OpJMPZ>>,
      <<<<"J", "M", "P", "N", "Z">>, OpJMPNZ>>,
      <<<<"C", "A", "L", "L">>, OpCALL>>,
      <<<<"R", "E", "T">>, OpRET>>,
      <<<<"H", "A", "L", "T">>, OpHALT>>,
      <<<<"N", "O", "P">>, OpNOP>>,
      <<<<"S", "Q", "R", "T">>, OpSQRT>>,
      <<<<"S", "I", "N">>, OpSIN>>,
      <<<<"C", "O", "S">>, OpCOS>>,
      <<<<"T", "A", "N">>, OpTAN>>,
      <<<<"A", "S", "I", "N">>, OpASIN>>,
      <<<<"A", "C", "O", "S">>, OpACOS>>,
      <<<<"A", "T", "A", "N">>, OpATAN>>,
      <<<<"A", "T", "A", "N", "2">>, OpATAN2>>,
      <<<<"L", "O", "G">>, OpLOG>>,
      <<<<"L", "O", "G", "1", "0">>, OpLOG10>>,
      <<<<"E", "X", "P">>, OpEXP>>,
      <<<<"P", "O", "W">>, OpPOW>>,
      <<<<"M", "I", "N">>, OpMIN>>,
      <<<<"M", "A", "X">>, OpMAX>>,
      <<<<"F", "L", "O", "O", "R">>, OpFLOOR>>,
      <<<<"C", "E", "I", "L">>, OpCEIL>>,
      <<<<"R", "O", "U", "N", "D">>, OpROUND>>,
      <<<<"T", "R", "U", "N", "C">>, OpTRUNC>>>>

\* makeOpcodeMap(): name -> opcode
makeOpcodeMap ==
    [n \in {m[1] : m \in Range(Mnemonics)} |->
        (CHOOSE m \in Range(Mnemonics) : m[1] = n)[2]]

\* The custom table of generate: strings.ToUpper(name) -> opcode.  When two
\* handlers have the same upper-cased name the order of the map iteration
\* decides; the registries of the model give every handler its own name.
customOpcodeMap(reg) ==
    IF reg.isNil THEN [n \in {} |-> 0]
    ELSE [n \in {ToUpper(Names(reg.handlers)[o]) : o \in List(reg.handlers)} |->
             CHOOSE o \in List(reg.handlers) : ToUpper(Names(reg.handlers)[o]) = n]

\* The opcodes emitNoOperand passes to the builder method of their name
BuilderNoOperandOps ==
    {OpPOP, OpDUP, OpSWAP, OpOVER, OpROT,
     OpADD, OpSUB, OpMUL, OpDIV, OpMOD, OpNEG, OpABS, OpINC, OpDEC,
     OpAND, OpOR, OpNOT, OpXOR,
     OpEQ, OpNE, OpGT, OpLT, OpGE, OpLE,
     OpLOADD, OpSTORED,
     OpRET, OpHALT, OpNOP,
     OpSQRT, OpSIN, OpCOS, OpTAN,
     OpMIN, OpMAX, OpFLOOR, OpCEIL, OpROUND}

\* The opcodes emitNoOperand answers with "not yet implemented"
NotImplementedOps ==
    {OpASIN, OpACOS, OpATAN, OpATAN2, OpLOG, OpLOG10, OpEXP, OpPOW, OpTRUNC}

emitNoOperand(b, opcode) ==
    IF opcode \in BuilderNoOperandOps THEN [b |-> Emit(b, opcode, 0), err |-> NoMsg]
    ELSE IF opcode \in NotImplementedOps
    THEN [b |-> b, err |-> Msg("opcode not yet implemented", <<opcode>>, 0, 0)]
    ELSE IF opcode >= 128 THEN [b |-> Emit(b, opcode, 0), err |-> NoMsg]
    ELSE [b |-> b, err |-> Msg("opcode requires an operand", <<opcode>>, 0, 0)]

emitWithOperand(b, opcode, operand) ==
    CASE opcode = OpPUSH ->
            IF operand.Type # "Number"
            THEN [b |-> b, err |-> Msg("requires a numeric operand", <<opcode>>, 0, 0)]
            ELSE IF operand.IsFloat
            THEN [b |-> Emit(b, OpPUSH, operand.FloatValue), err |-> NoMsg]
            ELSE [b |-> Emit(b, OpPUSH, operand.Number), err |-> NoMsg]
      [] opcode \in {OpPUSHI, OpLOAD, OpSTORE} ->
            IF operand.Type # "Number"
            THEN [b |-> b, err |-> Msg("requires a numeric operand", <<opcode>>, 0, 0)]
            ELSE [b |-> Emit(b, opcode, operand.Number), err |-> NoMsg]
      [] opcode \in {OpJMP, OpJMPZ, OpJMPNZ, OpCALL} ->
            IF operand.Type # "Label"
            THEN [b |-> b, err |-> Msg("requires a label operand", <<opcode>>, 0, 0)]
            ELSE [b |-> labelRef(b, opcode, operand.Label), err |-> NoMsg]
      [] OTHER ->
            IF opcode >= 128
            THEN IF operand.Type # "Number"
                 THEN [b |-> b,
                       err |-> Msg("custom instruction requires a numeric operand",
                                   <<opcode>>, 0, 0)]
                 ELSE [b |-> Emit(b, opcode, operand.Number), err |-> NoMsg]
            ELSE [b |-> b, err |-> Msg("opcode does not accept operands",
                                       <<opcode>>, 0, 0)]

\* emitInstruction looking the name up in the custom table first
emitInstructionCustomFirst(b, stmt, opcodeMap, customMap) ==
    LET opcodeName == ToUpper(stmt.Opcode)
        known == opcodeName \in DOMAIN opcodeMap \cup DOMAIN customMap
        opcode == IF opcodeName \in DOMAIN customMap THEN customMap[opcodeName]
                  ELSE opcodeMap[opcodeName]
    IN  IF ~known THEN [b |-> b, err |-> Msg("unknown opcode", stmt.Opcode, 0, 0)]
        ELSE IF stmt.Operand.Type = "none" THEN emitNoOperand(b, opcode)
        ELSE emitWithOperand(b, opcode, stmt.Operand)

\* emitInstruction looking the name up as it is written
emitInstructionAsWritten(b, stmt, opcodeMap, customMap) ==
    LET opcodeName == stmt.Opcode
        known == opcodeName \in DOMAIN opcodeMap \cup DOMAIN customMap
        opcode == IF opcodeName \in DOMAIN opcodeMap THEN opcodeMap[opcodeName]
                  ELSE customMap[opcodeName]
    IN  IF ~known THEN [b |-> b, err |-> Msg("unknown opcode", stmt.Opcode, 0, 0)]
        ELSE IF stmt.Operand.Type = "none" THEN emitNoOperand(b, opcode)
        ELSE emitWithOperand(b, opcode, stmt.Operand)

emitInstruction(b, stmt, opcodeMap, customMap) ==
    LET opcodeName == ToUpper(stmt.Opcode)
        known == opcodeName \in DOMAIN opcodeMap \cup DOMAIN customMap
        opcode == IF opcodeName \in DOMAIN opcodeMap THEN opcodeMap[opcodeName]
                  ELSE customMap[opcodeName]
    IN  IF ~known THEN [b |-> b, err |-> Msg("unknown opcode", stmt.Opcode, 0, 0)]
        ELSE IF stmt.Operand.Type = "none" THEN emitNoOperand(b, opcode)
        ELSE emitWithOperand(b, opcode, stmt.Operand)

\* The loop of generate over the statements: fmt.Errorf("line %d: %w", ...)
RECURSIVE processStatements(_, _, _, _)
processStatements(b, statements, opcodeMap, customMap) ==
    IF statements = <<>> THEN [b |-> b, err |-> NoMsg]
    ELSE LET stmt == Head(statements)
             em == emitInstruction(b, stmt, opcodeMap, customMap)
         IN  IF stmt.Type = "Label"
             THEN processStatements(Label(b, stmt.Label), Tail(statements),
                                    opcodeMap, customMap)
             ELSE IF em.err # NoMsg
             THEN [b |-> b, err |-> [em.err EXCEPT !.line = stmt.Line]]
             ELSE processStatements(em.b, Tail(statements), opcodeMap, customMap)

\* The text of the error of Build: "unresolved label: <name>"
ErrorText(err) == Msg(err.Err, err.text, 0, 0)

generate(statements, reg) ==
    LET g == processStatements(NewProgramBuilder, statements, makeOpcodeMap,
                               customOpcodeMap(reg))
        built == Build(g.b)
    IN  IF g.err # NoMsg THEN [program |-> NilProgram, err |-> g.err]
        ELSE IF built.err # NoError
        THEN [program |-> NilProgram, err |-> ErrorText(built.err)]
        ELSE [program |-> built.program, err |-> NoMsg]

AssemblerError(line, column, message) ==
    [Line |-> line, Column |-> column, Message |-> message, Source |-> <<>>]

\* The nil error
NoAssemblerError == AssemblerError(0, 0, NoMsg)

wrapError(err) ==
    IF err = NoMsg THEN NoAssemblerError ELSE AssemblerError(0, 0, err)

Assemble(source, reg) ==
    LET lexed == Tokenize(source)
        parsed == Parse(lexed.tokens)
        generated == generate(parsed.statements, reg)
    IN  IF lexed.err # NoMsg THEN [program |-> NilProgram, err |-> wrapError(lexed.err)]
        ELSE IF parsed.err # NoMsg
        THEN [program |-> NilProgram, err |-> wrapError(parsed.err)]
        ELSE IF generated.err # NoMsg
        THEN [program |-> NilProgram, err |-> wrapError(generated.err)]
        ELSE [program |-> generated.program, err |-> NoAssemblerError]

----------------------------------------------------------------------------
(* The disassembler (disassembler.go), with the options of NewDisassembler  *)
(* and a program without metadata.                                          *)

\* makeOpcodeNameMap(), and over it the names of the registry
makeOpcodeNameMap ==
    [o \in {m[2] : m \in Range(Mnemonics)} |->
        (CHOOSE m \in Range(Mnemonics) : m[2] = o)[1]]

opcodeNameMap(reg) ==
    LET std == makeOpcodeNameMap
        custom == IF reg.isNil THEN [o \in {} |-> <<>>] ELSE Names(reg.handlers)
    IN  [o \in DOMAIN std \cup DOMAIN custom |->
            IF o \in DOMAIN custom THEN custom[o] ELSE std[o]]

hasNoOperand(opcode) == opcode \in BuilderNoOperandOps \cup NotImplementedOps

hasNumericOperand(opcode) ==
    opcode \in {OpPUSH, OpPUSHI, OpLOAD, OpSTORE} \/ opcode >= 128

\* fmt.Sprintf("%d", n)
RECURSIVE FormatNat(_)
FormatNat(n) ==
    IF n < 10 THEN <<Digits[n + 1]>>
    ELSE Append(FormatNat(n \div 10), Digits[(n % 10) + 1])

FormatInt(n) == IF n < 0 THEN <<"-">> \o FormatNat(0 - n) ELSE FormatNat(n)

disassembleInstruction(inst, opcodeNames) ==
    IF inst.Opcode \notin DOMAIN opcodeNames
    THEN [line |-> <<>>, err |-> Msg("unknown opcode", <<inst.Opcode>>, 0, 0)]
    ELSE IF hasNoOperand(inst.Opcode)
    THEN [line |-> opcodeNames[inst.Opcode], err |-> NoMsg]
    ELSE [line |-> opcodeNames[inst.Opcode] \o <<" ">> \o FormatInt(inst.Operand),
          err |-> NoMsg]

\* The loop of Disassemble from the instruction at index i on
RECURSIVE disassembleFrom(_, _, _, _)
disassembleFrom(instructions, symbols, opcodeNames, i) ==
    IF i >= Len(instructions) THEN [text |-> <<>>, err |-> NoMsg]
    ELSE LET label == IF i \in DOMAIN symbols
                      THEN (IF i > 0 THEN <<"\n">> ELSE <<>>)
                           \o symbols[i] \o <<":", "\n">>
                      ELSE <<>>
             d == disassembleInstruction(instructions[i + 1], opcodeNames)
             rest == disassembleFrom(instructions, symbols, opcodeNames, i + 1)
         IN  IF d.err # NoMsg THEN [text |-> <<>>, err |-> d.err]
             ELSE IF rest.err # NoMsg THEN rest
             ELSE [text |-> label \o <<" ", " ", " ", " ">> \o d.line \o <<"\n">>
                            \o rest.text,
                   err |-> NoMsg]

Disassemble(prog, symbols, reg) ==
    disassembleFrom(prog.instructions, symbols, opcodeNameMap(reg), 0)

----------------------------------------------------------------------------
(* The builder and the assembler under the calls of a host: a builder is    *)
(* driven call by call and built; a source text is assembled, the program   *)
(* disassembled and the text assembled again.                               *)

MaxCalls == 4
MaxLines == 3

LabelNames == {<<"a">>, <<"b">>}

JumpMethods == {"Jmp", "JmpZ", "JmpNZ", "Call"}

BuilderCall(method, arg) == [method |-> method, arg |-> arg]

NoBuild == [program |-> NilProgram, err |-> NoError]

\* The capacity that append gives a slice that is full: the runtime doubles
\* it (from 0 to 1).
Grow(cap) == IF cap = 0 THEN 1 ELSE 2 * cap

\* No Program of an earlier Build is held by the host.
NoHeld == [isNil |-> TRUE, instructions |-> <<>>, built |-> <<>>, shared |-> FALSE]

\* b.instructions = append(b.instructions, ...): a full slice moves to a new
\* backing array, which a Program built before does not share.
Appended(t) ==
    LET full == Len(t.b.instructions) = t.cap
    IN  [t EXCEPT !.cap = IF full THEN Grow(@) ELSE @,
                  !.held.shared = @ /\ ~full]

\* NewProgramBuilder()
NewBuilder ==
    /\ tool.op = "none"
    /\ tool' = [op |-> "Builder", b |-> NewProgramBuilder, log |-> <<>>,
                ret |-> NoBuild, cap |-> 0, held |-> NoHeld]
    /\ UNCHANGED <<engine, memory, unit, pool>>

\* builder.Label(name)
BuilderLabel ==
    /\ tool.op = "Builder"
    /\ Len(tool.log) < MaxCalls
    /\ \E name \in LabelNames :
          tool' = [tool EXCEPT !.b = Label(@, name),
                               !.log = Append(@, BuilderCall("Label", name))]
    /\ UNCHANGED <<engine, memory, unit, pool>>

\* builder.Jmp(label), JmpZ(label), JmpNZ(label), Call(label)
BuilderJump ==
    /\ tool.op = "Builder"
    /\ Len(tool.log) < MaxCalls
    /\ \E method \in JumpMethods, label \in LabelNames :
          tool' = [Appended(tool) EXCEPT
                               !.b = CASE method = "Jmp" -> Jmp(@, label)
                                       [] method = "JmpZ" -> JmpZ(@, label)
                                       [] method = "JmpNZ" -> JmpNZ(@, label)
                                       [] method = "Call" -> Call(@, label),
                               !.log = Append(@, BuilderCall(method, label))]
    /\ UNCHANGED <<engine, memory, unit, pool>>

\* builder.Push(1)
BuilderPush ==
    /\ tool.op = "Builder"
    /\ Len(tool.log) < MaxCalls
    /\ tool' = [Appended(tool) EXCEPT !.b = Emit(@, OpPUSH, 1),
                            !.log = Append(@, BuilderCall("Push", <<>>))]
    /\ UNCHANGED <<engine, memory, unit, pool>>

\* builder.Build(): the references are resolved in place, in the backing
\* array of b.instructions, which the Program returned shares.
BuilderBuild ==
    LET r == resolve(tool.b.instructions, tool.b.labels, tool.b.references)
    IN  /\ tool.op = "Builder"
        /\ tool' = [tool EXCEPT
                       !.op = "Build",
                       !.ret = Build(tool.b),
                       !.b.instructions = r.instructions,
                       !.held.instructions =
                           IF tool.held.shared
                           THEN SubSeq(r.instructions, 1, Len(@)) ELSE @]
        /\ UNCHANGED <<engine, memory, unit, pool>>

\* The host keeps the Program that Build returned and goes on with the
\* builder.
BuilderKeep ==
    /\ tool.op = "Build"
    /\ tool.ret.err = NoError
    /\ tool.held.isNil
    /\ tool' = [tool EXCEPT
                   !.op = "Builder",
                   !.held = [isNil |-> FALSE,
                             instructions |-> tool.ret.program.instructions,
                             built |-> tool.ret.program.instructions,
                             shared |-> TRUE]]
    /\ UNCHANGED <<engine, memory, unit, pool>>

\* The registry set on the assembler and the disassembler: one handler,
\* named EMIT, at the first custom opcode.
AsmRegistry ==
    [isNil |-> FALSE,
     handlers |-> Register(NewInstructionRegistry, FirstCustomOpcode,
                           <<"E", "M", "I", "T">>).reg]

AsmLines ==
    {<<"P", "U", "S", "H", " ", "1">>,
     <<"a", ":">>,
     <<"b", ":">>,
     <<"J", "M", "P", " ", "a">>,
     <<"J", "M", "P", "N", "Z", " ", "b">>,
     <<"h", "a", "l", "t">>,
     <<"F", "O", "O">>,
     <<"P", "U", "S", "H", " ", "a">>,
     <<"P", "U", "S", "H", "I", " ", "1", ".", "2", ".", "3">>,
     <<"E", "M", "I", "T", " ", "7">>,
     <<"p", "u", "s", "h", " ", "-", "2", ".", "5", " ", ";", "c">>}

RECURSIVE JoinLines(_)
JoinLines(lines) ==
    IF lines = <<>> THEN <<>>
    ELSE Head(lines) \o <<"\n">> \o JoinLines(Tail(lines))

\* One statement of the mnemonic, with a well-formed operand where the
\* opcode takes one (a number, or a label defined on the next line).
MnemonicSource(m) ==
    IF m[2] \in {OpPUSH, OpPUSHI, OpLOAD, OpSTORE} THEN m[1] \o <<" ", "1", "\n">>
    ELSE IF m[2] \in {OpJMP, OpJMPZ, OpJMPNZ, OpCALL}
    THEN m[1] \o <<" ", "a", "\n", "a", ":", "\n">>
    ELSE m[1] \o <<"\n">>

\* One PUSH or PUSHI statement for each kind of numeric literal: whole and
\* fractional, written with and without a dot.
LiteralSources ==
    {<<"P", "U", "S", "H", " ", "2", ".", "0", "\n">>,
     <<"P", "U", "S", "H", " ", "3", ".", "1", "4", "\n">>,
     <<"P", "U", "S", "H", "I", " ", "-", "7", "\n">>,
     <<"P", "U", "S", "H", "I", " ", "1", ".", "5", "\n">>}

Sources ==
    {JoinLines(ls) : ls \in SeqsUpTo(AsmLines, MaxLines)}
    \cup {MnemonicSource(m) : m \in Range(Mnemonics)}
    \cup LiteralSources

\* A registry whose handler names are written in lower and mixed case, two
\* of them the names of standard mnemonics.
NamedRegistry ==
    [isNil |-> FALSE,
     handlers |-> Register(
                      Register(
                          Register(NewInstructionRegistry, FirstCustomOpcode,
                                   <<"e", "m", "i", "t">>).reg,
                          FirstCustomOpcode + 1, <<"H", "a", "l", "t">>).reg,
                      FirstCustomOpcode + 2, <<"A", "D", "D">>).reg]

\* The registries set on an assembler: none, EMIT alone, and the named ones.
AsmRegistries == {NilRegistry, AsmRegistry, NamedRegistry}

ToLowerChar(ch) ==
    IF ch \in Range(Upper) THEN Lower[CHOOSE i \in DOMAIN Upper : Upper[i] = ch]
    ELSE ch

ToLower(s) == [i \in DOMAIN s |-> ToLowerChar(s[i])]

\* Every standard mnemonic in lower case and with a capital first letter only
CaseSources ==
    UNION {{MnemonicSource(<<ToLower(m[1]), m[2]>>),
            MnemonicSource(<<<<Head(m[1])>> \o ToLower(Tail(m[1])), m[2]>>)} :
           m \in Range(Mnemonics)}

\* Names of handlers in several spellings, with and without an operand, and
\* a name that nothing defines
OpcodeSources ==
    {<<"H", "A", "L", "T", "\n">>,
     <<"a", "d", "d", "\n">>,
     <<"A", "D", "D", " ", "1", "\n">>,
     <<"E", "M", "I", "T", " ", "7", "\n">>,
     <<"E", "m", "i", "t", "\n">>,
     <<"e", "m", "i", "t", " ", "7", "\n">>,
     <<"F", "O", "O", "\n">>}

\* A label defined in one spelling and referred to in the same and in another
LabelCaseSources ==
    {<<"A", ":", "\n", "J", "M", "P", " ", "a", "\n">>,
     <<"A", ":", "\n", "J", "M", "P", " ", "A", "\n">>,
     <<"N", "O", "P", "\n", "a", ":", "\n", "N", "O", "P", "\n", "A", ":", "\n",
       "J", "M", "P", " ", "A", "\n", "J", "M", "P", "Z", " ", "a", "\n">>}

\* assembler.SetRegistry(reg) and assembler.Assemble(source)
AssembleWithRegistry ==
    /\ tool.op = "none"
    /\ \E source \in CaseSources \cup OpcodeSources \cup LabelCaseSources,
          reg \in AsmRegistries :
          tool' = [op |-> "AssembleWith", source |-> source, reg |-> reg,
                   ret |-> Assemble(source, reg)]
    /\ UNCHANGED <<engine, memory, unit, pool>>

\* assembler.Assemble(source)
AssembleSource ==
    /\ tool.op = "none"
    /\ \E source \in Sources :
          tool' = [op |-> "Assemble", source |-> source,
                   ret |-> Assemble(source, AsmRegistry)]
    /\ UNCHANGED <<engine, memory, unit, pool>>

\* disassembler.Disassemble(program) of the program just assembled
DisassembleProgram ==
    /\ tool.op = "Assemble"
    /\ tool.ret.err = NoAssemblerError
    /\ \E symbols \in SymbolTables(tool.ret.program.labels) :
          tool' = [op |-> "Disassemble", source |-> tool.source,
                   program |-> tool.ret.program,
                   ret |-> Disassemble(tool.ret.program, symbols, AsmRegistry)]
    /\ UNCHANGED <<engine, memory, unit, pool>>

\* assembler.Assemble(text) of the text just disassembled
Reassemble ==
    /\ tool.op = "Disassemble"
    /\ tool.ret.err = NoMsg
    /\ tool' = [op |-> "Reassemble", source |-> tool.ret.text,
                program |-> tool.program,
                ret |-> Assemble(tool.ret.text, AsmRegistry)]
    /\ UNCHANGED <<engine, memory, unit, pool>>

AsmNext ==
    \/ NewBuilder \/ BuilderLabel \/ BuilderJump \/ BuilderPush \/ BuilderBuild
    \/ BuilderKeep
    \/ AssembleSource \/ AssembleWithRegistry \/ DisassembleProgram \/ Reassemble

AsmSpec == ToolInit /\ [][AsmNext]_vars

----------------------------------------------------------------------------
(* The VM pool (VMPool) under concurrent callers.  Each caller makes one    *)
(* Execute call at a time; a call is cut at Get, at the entry of the        *)
(* VM's Execute, at every turn of its loop and at the deferred Put.  The    *)
(* sync.Pool holds the idle VMs and may drop any of them at any time.       *)

MaxVMs == 2

Callers == {"g1", "g2"}

VMIds == 1 .. MaxVMs

PoolOptions == Opt(0, 0, 0, "nil")

PoolPrograms ==
    {<<NewInstruction(OpPUSH, 1), NewInstruction(OpPUSH, 2), NewInstruction(OpADD, 0)>>,
     <<NewInstruction(OpPUSH, 1), NewInstruction(OpSTORE, 0), NewInstruction(OpLOAD, 0)>>,
     <<NewInstruction(OpPUSHI, 1), NewInstruction(OpHALT, 0)>>,
     <<NewInstruction(OpADD, 0)>>}

\* A call that has not entered the VM's Execute
NoRun(cfg) ==
    [e |-> newExecutor(cfg).e, memory |-> NewSimpleMemory(MemSize), userData |-> {},
     phase |-> "ready", result |-> NoResult]

\* NewVMPool(config): no VM is made until the first Get.
NewVMPool(cfg) ==
    [config |-> newExecutor(cfg).config,
     idle |-> {},
     vms |-> [v \in VMIds |-> newExecutor(cfg).e],
     callers |-> [c \in Callers |->
                     [pc |-> "idle", vm |-> 0, program |-> <<>>, run |-> NoRun(cfg)]]]

InFlight(c) == pool.callers[c].pc \in {"got", "running"}

InUse == {pool.callers[c].vm : c \in {d \in Callers : InFlight(d)}}

\* p.pool.Get() handing out a VM and leaving it in the pool.
poolGetLeaves(p, v) == p

\* p.pool.Get() handing out VM v
poolGet(p, v) == [p EXCEPT !.idle = @ \ {v}]

PoolInit ==
    /\ EngineParked
    /\ memory = NewSimpleMemory(MemSize)
    /\ UnitParked
    /\ tool = NoTool
    /\ pool = NewVMPool(PlainConfig)

\* p.Get() of an Execute call: an idle VM of the pool, or one that New
\* makes, reset.
PoolGet(c) ==
    /\ pool.callers[c].pc \in {"idle", "returned"}
    /\ \E prog \in PoolPrograms, v \in VMIds :
          /\ v \in pool.idle \/ v \notin pool.idle \cup InUse
          /\ pool' = [poolGet(pool, v) EXCEPT
                         !.vms[v] = Reset(IF v \in pool.idle THEN @
                                          ELSE newExecutor(pool.config).e),
                         !.callers[c] = [pc |-> "got", vm |-> v, program |-> prog,
                                         run |-> NoRun(pool.config)]]
    /\ UNCHANGED <<engine, memory, unit, tool>>

\* vm.Execute(program, memory, opts): entry up to the loop.
PoolExecute(c) ==
    LET call == pool.callers[c]
        r == BeginRun(pool.vms[call.vm], NewSimpleMemory(MemSize))
    IN  /\ call.pc = "got"
        /\ pool' = [pool EXCEPT !.vms[call.vm] = r.e,
                                !.callers[c].pc = "running",
                                !.callers[c].run = r]
        /\ UNCHANGED <<engine, memory, unit, tool>>

\* The top of the loop, on the VM's fields as they are now.
PoolCheck(c) ==
    LET call == pool.callers[c]
        r == CheckStep([call.run EXCEPT !.e = pool.vms[call.vm]], call.program,
                       PoolOptions, pool.config, 0, "nil")
    IN  /\ call.pc = "running"
        /\ call.run.phase = "check"
        /\ pool' = [pool EXCEPT !.vms[call.vm] = r.e, !.callers[c].run = r]
        /\ UNCHANGED <<engine, memory, unit, tool>>

\* Fetch, count, execute, advance: the body of the loop, entered under the
\* loop condition.
PoolDispatch(c) ==
    LET call == pool.callers[c]
        r == DispatchStep([call.run EXCEPT !.e = pool.vms[call.vm]], call.program,
                          PoolOptions, pool.config)
    IN  /\ call.pc = "running"
        /\ call.run.phase = "dispatch"
        /\ LoopCondition(pool.vms[call.vm], call.program)
        /\ pool' = [pool EXCEPT !.vms[call.vm] = r.e, !.callers[c].run = r]
        /\ UNCHANGED <<engine, memory, unit, tool>>

\* defer p.Put(vm): the VM is reset and goes back to the pool.
PoolPut(c) ==
    LET call == pool.callers[c]
    IN  /\ call.pc = "running"
        /\ call.run.phase = "done"
        /\ pool' = [pool EXCEPT !.vms[call.vm] = Reset(@),
                                !.idle = @ \cup {call.vm},
                                !.callers[c].pc = "returned"]
        /\ UNCHANGED <<engine, memory, unit, tool>>

\* The sync.Pool drops an idle VM.
PoolDrop ==
    /\ \E v \in pool.idle : pool' = [pool EXCEPT !.idle = @ \ {v}]
    /\ UNCHANGED <<engine, memory, unit, tool>>

PoolNext ==
    \/ \E c \in Callers :
          PoolGet(c) \/ PoolExecute(c) \/ PoolCheck(c) \/ PoolDispatch(c) \/ PoolPut(c)
    \/ PoolDrop

PoolSpec == PoolInit /\ [][PoolNext]_vars

----------------------------------------------------------------------------
(* Properties.  Every state of the model is an instruction boundary: the   *)
(* top of the loop, the point just before the fetch, or after the return.  *)

Done == phase = "done"

\* The instruction fetched last, which is the one a failed call stopped at.
FailedInst == program[hist.p + 1]

\* Errors returned from the top of the loop, and errors of standard instructions.
LoopErrors == {ErrInstructionLimit, ErrTimeout, ContextCanceled}
InstructionErrors == {ErrStackUnderflow, ErrStackOverflow, ErrTypeMismatch,
                      ErrDivisionByZero, ErrInvalidMemoryAddress}

IsPrefix(s, t) == Len(s) <= Len(t) /\ SubSeq(t, 1, Len(s)) = s

\* C1: at every instruction boundary the stack depth is between 0 and the
\* effective MaxStackDepth (opts.MaxStackDepth when > 0, else StackSize),
\* for pushes of standard opcodes and of custom handlers through ctx.Push.
C1_StackDepthBounded ==
    Len(e.stack) >= 0 /\ Len(e.stack) <= maxStackDepth(opts, config)

\* C2: at every instruction boundary 0 <= PC <= len(instructions), for
\* arbitrary jump operands and after a handler's SetPC or Jump.
C2_PCInRange ==
    (Running \/ Done) => (e.pc >= 0 /\ e.pc <= Len(program))

\* C3: with an instruction limit in force the InstructionCount reported in
\* the Result never exceeds it, on success and on every error, also when
\* handlers call IncrementInstructionCount.
C3_CountWithinLimit ==
    (Done /\ maxInstructions(opts, config) > 0)
        => result.InstructionCount <= maxInstructions(opts, config)

\* C4: every Execute call that returns without an error reports Halted=true.
C4_SuccessMeansHalted ==
    (Done /\ result.Error = NoError) => result.Halted

\* C5 as stated: the stop conditions are tested in the order limit,
\* deadline, cancellation, PC out of range, and the first that holds decides
\* the outcome of the iteration.
C5_LimitBeforeLoopCondition ==
    (Done /\ result.Error \in LoopErrors \cup {NoError}) =>
        IF LimitReached(e, opts, config) THEN result.Error = ErrInstructionLimit
        ELSE IF DeadlinePassed(opts, elapsed) THEN result.Error = ErrTimeout
        ELSE IF CancelObserved(ctxState) THEN result.Error = ContextCanceled
        ELSE result.Error = NoError

\* C5 amended: the loop condition (not halted, PC inside the program) is
\* tested first and its failure ends the call without error whatever the
\* other conditions are; only when it holds are the limit, the deadline and
\* the cancellation tested, in this order, the first that holds deciding.
C5_LoopConditionFirst ==
    (Done /\ result.Error \in LoopErrors \cup {NoError}) =>
        IF ~LoopCondition(e, program) THEN result.Error = NoError
        ELSE IF LimitReached(e, opts, config) THEN result.Error = ErrInstructionLimit
        ELSE IF DeadlinePassed(opts, elapsed) THEN result.Error = ErrTimeout
        ELSE CancelObserved(ctxState) /\ result.Error = ContextCanceled

C5_Witness ==
    /\ Done
    /\ LoopCondition(e, program)
    /\ LimitReached(e, opts, config)
    /\ DeadlinePassed(opts, elapsed)
    /\ CancelObserved(ctxState)
    /\ result.Error = ErrInstructionLimit

C7_CancelledPartialResult ==
    result.Error = ContextCanceled =>
        /\ phase \in {"done", "ready"}
        /\ ~result.Halted
        /\ Done => /\ CancelObserved(ctxState)
                   /\ result.InstructionCount = e.instrCount
                   /\ result.StackDepth = Len(e.stack)
                   /\ ~e.halted
                   /\ memory = hist.mem

C7_Witness ==
    /\ Done
    /\ result.Error = ContextCanceled
    /\ result.InstructionCount >= 2
    /\ result.StackDepth = 0
    /\ memory[0] = FloatValue(1)

\* C8 as stated: once the cancel signal is set or the deadline has passed,
\* Execute returns the Cancelled/Timeout error.
C8_SignalAlwaysReturnsItsError ==
    (Done /\ SignalSet) => result.Error \in {ErrTimeout, ContextCanceled}

\* C8 amended: once the cancel signal is set or the deadline has passed, at
\* most the instruction already in flight is dispatched, and Execute then
\* returns the Cancelled/Timeout error unless the call ends first for
\* another reason: that instruction failed, it halted or left the PC outside
\* the program, or the instruction limit is reached.
C8_OneInstructionGranularity ==
    /\ hist.afterSignal <= 1
    /\ (phase = "dispatch" /\ SignalSet) => hist.afterSignal = 0
    /\ (Done /\ SignalSet /\ LoopCondition(e, program)
          /\ result.Error \notin InstructionErrors \cup {ErrInvalidOpcode, ErrHandler})
          => result.Error \in {ErrTimeout, ContextCanceled, ErrInstructionLimit}

C8_Witness ==
    /\ Done
    /\ hist.afterSignal = 1
    /\ result.Error = ContextCanceled
    /\ result.InstructionCount >= 2
    /\ opts.MaxInstructions = 0

\* C9: after any terminated execution, Reset leaves the executor's fields as
\* a newly constructed VM has them, and every Execute call (after a Reset or
\* not) goes step by step as on a newly constructed VM with the same
\* configuration, program, memory and options: same stack, PC, halted flag,
\* counter, scratch data, memory and Result.
C9_ResetEqualsFresh ==
    /\ hist.lastOp = "Reset" => e = newExecutor(config).e
    /\ (Running \/ Done) =>
          /\ e = fresh.e
          /\ memory = fresh.memory
          /\ userData = fresh.userData
          /\ phase = fresh.phase
          /\ result = fresh.result

C9_Witness ==
    /\ phase = "ready"
    /\ hist.lastOp = "Reset"
    /\ result.Error = ErrStackOverflow
    /\ result.StackDepth = 2
    /\ e.stack = <<>>

\* C10 as stated: every error returned by Execute is wrapped with the
\* record {PC, instruction counter, stack depth, opcode} of the failing point
\* and still matches its kind under errors.Is.
C10_ErrorsWrapped ==
    (Done /\ result.Error # NoError) =>
        /\ IsVMError(result.Error)
        /\ ErrorsIs(result.Error, Sentinel(result.Error.Err))

\* C10 amended: every error returned by Execute is the error value itself,
\* not wrapped in a VMError (no PC and no opcode are reported); it matches
\* its kind under errors.Is, the kind is that of the failing point, and the
\* instruction counter and stack depth of the failing point are in the
\* Result returned with it.
C10_ErrorsBare ==
    (Done /\ result.Error # NoError) =>
        /\ ~IsVMError(result.Error)
        /\ ErrorsIs(result.Error, Sentinel(result.Error.Err))
        /\ result.InstructionCount = e.instrCount
        /\ result.StackDepth = Len(e.stack)
        /\ result.Error = ErrInstructionLimit => LimitReached(e, opts, config)
        /\ result.Error = ErrTimeout => DeadlinePassed(opts, elapsed)
        /\ result.Error = ContextCanceled => CancelObserved(ctxState)
        /\ result.Error = ErrDivisionByZero => FailedInst.Opcode \in {OpDIV, OpMOD}
        /\ result.Error = ErrInvalidMemoryAddress => FailedInst.Opcode \in MemoryOps
        /\ result.Error = ErrInvalidOpcode => FailedInst.Opcode \notin StandardOps

C10_Witness ==
    /\ Done
    /\ result.Error = ErrDivisionByZero
    /\ FailedInst.Opcode = OpDIV
    /\ result.InstructionCount = 3

\* The call ended in the failure of the instruction fetched last.
InstructionFailed == Done /\ result.Error \notin LoopErrors \cup {NoError}

StandardProgram == \A i \in 1 .. Len(program) : program[i].Opcode < FirstCustomOpcode

\* The instruction fetched last is bound to the given handler.
FailedIn(handler) ==
    /\ FailedInst.Opcode >= FirstCustomOpcode
    /\ ~config.InstructionRegistry.isNil
    /\ Get(config.InstructionRegistry.handlers, FailedInst.Opcode).handler = handler

C12_LimitStopsAtExactlyN ==
    (Done /\ result.Error = ErrInstructionLimit) =>
        /\ result.InstructionCount = maxInstructions(opts, config)
        /\ hist.dispatched = maxInstructions(opts, config)
        /\ ~result.Halted

\* The opcode is neither a defined standard opcode nor a custom opcode bound
\* in the registry of the configuration.
Unbound(opcode) ==
    /\ opcode \notin StandardOps \cup InexactMathOps
    /\ \/ opcode < 128
       \/ config.InstructionRegistry.isNil
       \/ opcode \notin List(config.InstructionRegistry.handlers)

\* C17: dispatching an opcode that is neither a defined standard opcode nor
\* a custom opcode bound in the engine's registry (an opcode >= 128 with no
\* registry or after it was unregistered, an undefined opcode such as 99)
\* ends the call with InvalidOpcode, the stack and the memory unchanged.
C17_UnboundOpcodeInvalid ==
    ((Running \/ Done) /\ hist.dispatched > 0 /\ Unbound(FailedInst.Opcode)) =>
        /\ Done
        /\ result.Error = ErrInvalidOpcode
        /\ e.stack = hist.pre
        /\ memory = hist.memPre

C17_Witness ==
    /\ Done
    /\ result.Error = ErrInvalidOpcode
    /\ FailedInst.Opcode = FirstCustomOpcode + 7
    /\ ~config.InstructionRegistry.isNil
    /\ e.stack = <<IntValue(1)>>
    /\ hist.pre = e.stack

\* C18: the scratch data is per execution: what one custom instruction wrote
\* is what the later custom instructions of the same call read (the COUNT
\* handler's counter is the number of times it ran in this call), and
\* nothing written in an earlier execution is read in a later one, after
\* Reset or without it.
C18_UserDataPerExecution ==
    (Running \/ Done) =>
        /\ ctxUserDataGet(Current, "n") = hist.counts
        /\ hist.counts = 0 => userData = {}

C18_Witness ==
    /\ Done
    /\ hist.stale
    /\ hist.counts = 2
    /\ e.stack = <<IntValue(0), IntValue(1)>>

\* C19: when a custom handler sets the PC through SetPC(t) or Jump(t) and
\* returns without error and without halting, the engine does not advance
\* the PC again: the next instruction dispatched is the one at index t.
C19_HandlerPCNotAdvanced ==
    (/\ phase = "check"
     /\ hist.dispatched > 0
     /\ FailedIn("SETPC") \/ FailedIn("JUMP")
     /\ ~e.halted)
    => e.pc = FailedInst.Operand

\* C30: STORED takes `value index ->` with the index on top of the stack:
\* dispatched on a stack whose top is an index i of the memory and whose
\* second element is a value v, it returns no error, stores v at memory[i]
\* and removes both from the stack.
C30_StoredIndexOnTop ==
    LET n == Len(hist.pre)
    IN  (/\ Running \/ Done
         /\ hist.lastOp = "Execute"
         /\ hist.dispatched > 0
         /\ FailedInst.Opcode = OpSTORED
         /\ n >= 2
         /\ hist.pre[n].Type = "Int"
         /\ hist.pre[n].Data \in DOMAIN hist.memPre)
        => /\ ~InstructionFailed
           /\ memory[hist.pre[n].Data] = hist.pre[n - 1]
           /\ e.stack = SubSeq(hist.pre, 1, n - 2)

----------------------------------------------------------------------------
(* Properties of the registry, under RegistrySpec. *)

\* Thread t takes a step of its call.
Steps(t) == calls'[t].pc # calls[t].pc

InCall(t, op) == calls[t].op = op /\ calls[t].pc # "idle"

Returning(t) == calls[t].pc \in {"unlock", "done"}

\* C13: Register with an opcode in 0..127 returns an error and leaves the
\* registry as it was (Get, List and Names unchanged), after any sequence of
\* registry operations; every opcode bound in the registry is >= 128.
C13_ReservedRegisterRefused ==
    [][/\ \A t \in Threads :
            (/\ Steps(t)
             /\ calls'[t].op = "Register"
             /\ calls'[t].opcode \in 0 .. 127)
            => /\ calls[t].pc = "idle"
               /\ calls'[t].pc = "done"
               /\ calls'[t].ret # NoError
               /\ registry' = registry
               /\ \A o \in RegOpcodes :
                     Get(registry'.handlers, o) = Get(registry.handlers, o)
               /\ List(registry'.handlers) = List(registry.handlers)
               /\ Names(registry'.handlers) = Names(registry.handlers)
       /\ \A o \in DOMAIN registry'.handlers : o >= 128]_vars

C13_Witness ==
    \E t \in Threads :
        /\ InCall(t, "Register")
        /\ calls[t].opcode = 127
        /\ calls[t].pc = "done"
        /\ calls[t].ret = ErrReservedOpcode
        /\ DOMAIN registry.handlers = {128, 129}

\* C14: Register on an opcode that is bound returns an error and Get still
\* returns the handler bound before; no step replaces the handler of a bound
\* opcode: a binding is removed only by a successful Unregister and made
\* only by a successful Register of an unbound opcode.
C14_BoundOpcodeNotReplaced ==
    [][/\ \A t \in Threads :
            (/\ Steps(t)
             /\ calls[t].op = "Register"
             /\ calls[t].pc = "body"
             /\ calls[t].opcode \in DOMAIN registry.handlers)
            => /\ calls'[t].pc = "unlock"
               /\ calls'[t].ret = ErrAlreadyRegistered
               /\ Get(registry'.handlers, calls[t].opcode)
                    = Get(registry.handlers, calls[t].opcode)
       /\ \A o \in DOMAIN registry.handlers \cap DOMAIN registry'.handlers :
            registry'.handlers[o] = registry.handlers[o]
       /\ \A o \in DOMAIN registry.handlers \ DOMAIN registry'.handlers :
            \E t \in Threads : /\ calls[t].op = "Unregister"
                               /\ calls[t].opcode = o
                               /\ calls[t].pc = "write"
                               /\ calls'[t].ret = NoError
       /\ \A o \in DOMAIN registry'.handlers \ DOMAIN registry.handlers :
            \E t \in Threads : /\ calls[t].op = "Register"
                               /\ calls[t].opcode = o
                               /\ calls[t].pc = "write"
                               /\ calls'[t].ret = NoError
                               /\ registry'.handlers[o] = calls[t].handler]_vars

C14_Witness ==
    \E t \in Threads :
        /\ InCall(t, "Register")
        /\ Returning(t)
        /\ calls[t].ret = ErrAlreadyRegistered
        /\ calls[t].handler = "B"
        /\ Get(registry.handlers, calls[t].opcode) = [handler |-> "A", exists |-> TRUE]

\* C15: every registry call takes effect atomically: its result is the
\* result of the call made alone at one moment between its start and its
\* return, and the map is the one these moments produce in their order.
\* Two concurrent Registers of distinct unbound custom opcodes both succeed
\* and both bindings are present; of two concurrent Registers of the same
\* unbound opcode exactly one succeeds.
C15_CallsAtomic ==
    /\ \A t \in Threads : Returning(t) => calls[t].ret = shadow.expect[t]
    /\ (\A t \in Threads : calls[t].pc # "write")
          => registry.handlers = shadow.handlers
    /\ \A t, u \in Threads :
          (/\ t # u
           /\ InCall(t, "Register") /\ calls[t].pc = "done" /\ calls[t].clean
           /\ InCall(u, "Register") /\ calls[u].pc = "done" /\ calls[u].clean
           /\ calls[t].opcode >= 128 /\ calls[u].opcode >= 128)
          => /\ (calls[t].opcode # calls[u].opcode /\ calls[t].free /\ calls[u].free)
                  => /\ calls[t].ret = NoError
                     /\ calls[u].ret = NoError
                     /\ Get(registry.handlers, calls[t].opcode).handler = calls[t].handler
                     /\ Get(registry.handlers, calls[u].opcode).handler = calls[u].handler
             /\ (calls[t].opcode = calls[u].opcode /\ (calls[t].free \/ calls[u].free))
                  => /\ (calls[t].ret = NoError) # (calls[u].ret = NoError)
                     /\ Get(registry.handlers, calls[t].opcode).exists

C15_Witness ==
    /\ InCall("t1", "Register") /\ calls["t1"].pc = "done" /\ calls["t1"].clean
    /\ InCall("t2", "Register") /\ calls["t2"].pc = "done" /\ calls["t2"].clean
    /\ calls["t1"].opcode = 128
    /\ calls["t2"].opcode = 128
    /\ calls["t1"].free
    /\ calls["t2"].free
    /\ calls["t1"].ret = ErrAlreadyRegistered
    /\ calls["t2"].ret = NoError

\* C16: Unregister of a bound opcode succeeds and afterwards Get reports the
\* opcode as not registered, List and Names do not hold it and Register of
\* it succeeds; Unregister of an opcode that is not bound returns an error
\* and leaves the registry unchanged.
C16_UnregisterUnbinds ==
    [][\A t \in Threads :
          (Steps(t) /\ calls[t].op = "Unregister")
          => LET o == calls[t].opcode
                 h == registry.handlers
                 h2 == registry'.handlers
             IN  /\ (calls[t].pc = "body" /\ o \notin DOMAIN h)
                       => /\ calls'[t].ret = ErrNotRegistered
                          /\ calls'[t].pc = "unlock"
                          /\ h2 = h
                 /\ (calls[t].pc = "body" /\ o \in DOMAIN h)
                       => /\ calls'[t].pc = "write"
                          /\ h2 = h
                 /\ calls[t].pc = "write"
                       => /\ calls'[t].ret = NoError
                          /\ ~Get(h2, o).exists
                          /\ o \notin List(h2)
                          /\ o \notin DOMAIN Names(h2)
                          /\ \A n \in RegHandlers : Register(h2, o, n).err = NoError
                          /\ \A k \in DOMAIN h \ {o} : Get(h2, k) = Get(h, k)]_vars

C16_Witness ==
    \E t \in Threads :
        /\ InCall(t, "Unregister")
        /\ calls[t].pc = "done"
        /\ calls[t].ret = NoError
        /\ calls[t].opcode = 128
        /\ DOMAIN registry.handlers = {129}

----------------------------------------------------------------------------
(* Properties of SimpleMemory, under MemorySpec. *)

\* C20: for a memory of size n and an index i outside [0, n), load(i) and
\* store(i, v) return InvalidMemoryAddress and every cell keeps its value.
C20_OutOfRangeRefused ==
    (/\ shadow.op \in {"Load", "Store"}
     /\ shadow.index < 0 \/ shadow.index >= Size(shadow.before))
    => /\ shadow.ret.err = ErrInvalidMemoryAddress
       /\ shadow.ret.val = NilValue
       /\ Size(memory) = Size(shadow.before)
       /\ \A k \in 0 .. Size(memory) - 1 : memory[k] = shadow.before[k]

C20_Witness ==
    /\ shadow.op = "Store"
    /\ shadow.index = -1
    /\ shadow.ret.err = ErrInvalidMemoryAddress
    /\ Size(memory) = 2
    /\ memory[0] = FloatValue(1)
    /\ memory[1] = IntValue(0)

----------------------------------------------------------------------------
(* Properties of the codec, under CodecSpec. *)

\* C21: for every program p, decode(encode(p)) succeeds and yields an
\* instruction vector equal to p's, element by element, operands equal to
\* the int32 minimum and maximum and the empty program included.
C21_DecodeInvertsEncode ==
    tool.op = "DecodeEncoded" =>
        /\ tool.ret.err = NoError
        /\ ~tool.ret.panic
        /\ tool.ret.program.instructions = tool.program.instructions

C21_Witness ==
    /\ tool.op = "DecodeEncoded"
    /\ tool.program.instructions =
          <<NewInstruction(255, (0 - 2147483647) - 1), NewInstruction(OpPUSH, 2147483647)>>
    /\ tool.data = <<2, 0, 0, 0, 255, 0, 0, 0, 128, 0, 255, 255, 255, 127>>
    /\ tool.ret.program = tool.program

\* The buffer is 4 + 5*count bytes long, count being the unsigned 32-bit
\* little-endian value of its first four bytes.
ExactLength(data) ==
    /\ Len(data) >= 4
    /\ (Len(data) - 4) % 5 = 0
    /\ Uint32(SubSeq(data, 1, 4)) = U32((Len(data) - 4) \div 5)

\* C22: DecodeProgram succeeds only on a buffer of exactly 4 + 5*count
\* bytes, count being the unsigned 32-bit little-endian value of the first
\* four bytes; every other buffer is rejected with InvalidProgram.
C22_OnlyExactLengthDecodes ==
    tool.op = "Decode" =>
        IF ExactLength(tool.data)
        THEN tool.ret.err = NoError /\ ~tool.ret.panic
        ELSE Unwraps(tool.ret.err, ErrInvalidProgram) /\ ~tool.ret.panic

----------------------------------------------------------------------------
(* Properties of the builder, the assembler and the disassembler, under     *)
(* AsmSpec.                                                                 *)

Built == tool.op = "Build"

Assembled == tool.op = "Assemble"

\* The number of instructions the builder calls before call k emitted: the
\* index of the instruction call k emits, and the index of the first
\* instruction emitted after a label that call k defines.
EmittedBefore(log, k) == Cardinality({j \in 1 .. k - 1 : log[j].method # "Label"})

JumpOpcode(method) ==
    CASE method = "Jmp" -> OpJMP
      [] method = "JmpZ" -> OpJMPZ
      [] method = "JmpNZ" -> OpJMPNZ
      [] method = "Call" -> OpCALL

\* The calls of the log that define the label
Definitions(log, label) ==
    {d \in DOMAIN log : log[d] = BuilderCall("Label", label)}

\* The calls of the log that refer to a label
References(log) == {k \in DOMAIN log : log[k].method \in JumpMethods}

\* The reference of call k is resolved to a definition of its label.
Resolved(log, instructions, k) ==
    LET inst == instructions[EmittedBefore(log, k) + 1]
    IN  /\ inst.Opcode = JumpOpcode(log[k].method)
        /\ \E d \in Definitions(log, log[k].arg) :
              inst.Operand = EmittedBefore(log, d)

\* C24: in every successfully built program, each JMP/JMPZ/JMPNZ/CALL that
\* refers to label L has as operand the index of the first instruction
\* emitted after L's definition (the program length if none follows),
\* whether the reference comes before or after the definition; labels bound
\* to the same address each resolve to it.
C24_ReferencesResolveToLabel ==
    (Built /\ tool.ret.err = NoError) =>
        \A k \in References(tool.log) :
            Resolved(tool.log, tool.ret.program.instructions, k)

C24_Witness ==
    /\ Built
    /\ tool.ret.err = NoError
    /\ tool.log = <<BuilderCall("Call", <<"b">>), BuilderCall("Label", <<"a">>),
                    BuilderCall("Label", <<"b">>), BuilderCall("JmpZ", <<"a">>)>>
    /\ tool.ret.program.instructions =
          <<NewInstruction(OpCALL, 1), NewInstruction(OpJMPZ, 1)>>

\* The labels that calls of the log refer to and no call defines
Undefined(log) ==
    {log[k].arg : k \in {r \in References(log) : Definitions(log, log[r].arg) = {}}}

\* The statements of a source text, when it lexes and parses
Statements(source) == Parse(Tokenize(source).tokens).statements

Parses(source) ==
    /\ Tokenize(source).err = NoMsg
    /\ Parse(Tokenize(source).tokens).err = NoMsg

JumpNames == {m[1] : m \in {n \in Range(Mnemonics) : n[2] \in {OpJMP, OpJMPZ, OpJMPNZ, OpCALL}}}

\* The statements that refer to a label, the labels the statements define,
\* and the labels referred to and not defined
Referring(stmts) ==
    {k \in DOMAIN stmts : /\ stmts[k].Type = "Instruction"
                          /\ ToUpper(stmts[k].Opcode) \in JumpNames
                          /\ stmts[k].Operand.Type = "Label"}

Defined(stmts) == {stmts[k].Label : k \in {d \in DOMAIN stmts : stmts[d].Type = "Label"}}

UndefinedIn(stmts) == {stmts[k].Operand.Label : k \in Referring(stmts)} \ Defined(stmts)

\* Every statement is one the code generation accepts.
Generates(stmts) ==
    \A k \in DOMAIN stmts :
        stmts[k].Type = "Instruction" =>
            emitInstruction(NewProgramBuilder, stmts[k], makeOpcodeMap,
                            customOpcodeMap(AsmRegistry)).err = NoMsg

Reassembled == tool.op = "Reassemble"

\* C23: disassembling an assembled program and assembling the text again
\* succeeds and yields the same instruction vector, programs with labels
\* and JMP/JMPZ/JMPNZ/CALL included.
C23_DisassemblyReassembles ==
    Reassembled =>
        /\ tool.ret.err = NoAssemblerError
        /\ tool.ret.program # NilProgram
        /\ tool.ret.program.instructions = tool.program.instructions

\* A label that the builder calls define twice
DefinedTwice(log) ==
    \E d1, d2 \in DOMAIN log :
        d1 # d2 /\ log[d1].method = "Label" /\ log[d1] = log[d2]

\* A label that the statements define twice
DefinedTwiceIn(stmts) ==
    \E d1, d2 \in DOMAIN stmts :
        /\ d1 # d2
        /\ stmts[d1].Type = "Label"
        /\ stmts[d2].Type = "Label"
        /\ stmts[d1].Label = stmts[d2].Label

\* C26: a label defined twice, through the builder or in a source text, is
\* reported as an error and no program is produced.
C26_DuplicateLabelReported ==
    /\ (Built /\ DefinedTwice(tool.log)) =>
          /\ tool.ret.err # NoError
          /\ tool.ret.program = NilProgram
    /\ (Assembled /\ Parses(tool.source) /\ DefinedTwiceIn(Statements(tool.source))) =>
          /\ tool.ret.err # NoAssemblerError
          /\ tool.ret.program = NilProgram

\* The messages of the errors for an unknown opcode, a wrong operand kind, a
\* malformed number and an unresolved label
LineErrors ==
    {"unknown opcode",
     "requires a numeric operand", "requires a label operand",
     "custom instruction requires a numeric operand",
     "opcode does not accept operands", "opcode requires an operand",
     "invalid float", "invalid integer", "invalid number",
     ErrUnresolvedLabel.Err}

\* The line of the statement the message is about: the line the lexer, the
\* parser or the code generation was at, and for an unresolved label the
\* line of the first statement that refers to it.
OffendingLine(source, message) ==
    IF message.text = ErrUnresolvedLabel.Err
    THEN LET stmts == Statements(source)
             refs == {k \in Referring(stmts) : stmts[k].Operand.Label = message.arg}
         IN  stmts[CHOOSE k \in refs : \A j \in refs : k <= j].Line
    ELSE message.line

\* C27: the AssemblerError returned for an unknown opcode, a wrong operand
\* kind, a malformed number or an unresolved label carries the line number
\* of the offending statement.
C27_ErrorsCarryLine ==
    (Assembled /\ tool.ret.err.Message.text \in LineErrors) =>
        tool.ret.err.Line = OffendingLine(tool.source, tool.ret.err.Message)

\* C28: every standard mnemonic, ASIN, ACOS, ATAN, ATAN2, LOG, LOG10, EXP,
\* POW and TRUNC included, assembles, and a statement of it yields one
\* instruction with the opcode of that mnemonic.
C28_EveryMnemonicAssembles ==
    \A m \in Range(Mnemonics) :
        (Assembled /\ tool.source = MnemonicSource(m)) =>
            /\ tool.ret.err = NoAssemblerError
            /\ tool.ret.program # NilProgram
            /\ Len(tool.ret.program.instructions) = 1
            /\ tool.ret.program.instructions[1].Opcode = m[2]

----------------------------------------------------------------------------
(* Properties of the VM pool, under PoolSpec.                               *)

\* Execute run to its end
RECURSIVE RunToEnd(_, _, _, _)
RunToEnd(r, prog, o, cfg) ==
    IF r.phase = "done" THEN r
    ELSE IF r.phase = "check" THEN RunToEnd(CheckStep(r, prog, o, cfg, 0, "nil"), prog, o, cfg)
    ELSE RunToEnd(DispatchStep(r, prog, o, cfg), prog, o, cfg)

\* The Result of the program on a VM made for the call
FreshResult(prog) ==
    RunToEnd(BeginRun(newExecutor(pool.config).e, NewSimpleMemory(MemSize)),
             prog, PoolOptions, pool.config).result

Executed(c) ==
    \/ pool.callers[c].pc = "returned"
    \/ pool.callers[c].pc = "running" /\ pool.callers[c].run.phase = "done"

\* C29: under concurrent VMPool.Execute calls, no two calls in flight hold
\* the same VM, a VM is in its reset state when it is handed out, and the
\* Result of each call is the Result of the same program, memory and
\* options on a fresh VM.
C29_PoolCallsAreIsolated ==
    /\ \A c1, c2 \in Callers :
          (c1 # c2 /\ InFlight(c1) /\ InFlight(c2))
          => pool.callers[c1].vm # pool.callers[c2].vm
    /\ \A c \in Callers :
          pool.callers[c].pc = "got"
          => pool.vms[pool.callers[c].vm] = newExecutor(pool.config).e
    /\ \A c \in Callers :
          Executed(c) => pool.callers[c].run.result = FreshResult(pool.callers[c].program)

\* Both callers have run to the end at once, each on a VM of its own, and
\* their Results differ.
C29_Witness ==
    /\ pool.callers["g1"].pc = "running"
    /\ pool.callers["g1"].run.phase = "done"
    /\ pool.callers["g1"].run.result.Error = ErrStackUnderflow
    /\ pool.callers["g2"].pc = "running"
    /\ pool.callers["g2"].run.phase = "done"
    /\ pool.callers["g2"].run.result =
          [InstructionCount |-> 3, StackDepth |-> 1, Halted |-> TRUE, Error |-> NoError]
    /\ pool.idle = {}

----------------------------------------------------------------------------
(* Properties of programs and their encoding.                               *)

\* C31: once Build has returned a Program, no later operation on the
\* builder (appending instructions, redefining a label, calling Build
\* again) changes the instruction vector of that Program.
C31_ProgramImmutableAfterBuild ==
    (tool.op \in {"Builder", "Build"} /\ ~tool.held.isNil) =>
        tool.held.instructions = tool.held.built

\* Byte k (0 the least significant) of the 32-bit two's-complement form of x
ByteOf(x, k) ==
    ((x \div (CASE k = 0 -> 1 [] k = 1 -> 256 [] k = 2 -> 65536 [] k = 3 -> 16777216))
     % 256)

----------------------------------------------------------------------------
(* Properties of control flow, termination and the counter, under Spec.     *)

\* The instruction fetched last in the running or finished call has one of
\* the opcodes.
LastDispatched(opcodes) ==
    /\ Running \/ Done
    /\ hist.lastOp = "Execute"
    /\ hist.dispatched > 0
    /\ FailedInst.Opcode \in opcodes

\* C33: JMP t makes t the index of the next instruction dispatched; JMPZ t
\* and JMPNZ t pop exactly one value and make t the next index iff the value
\* is not truthy (JMPZ) or truthy (JMPNZ), and the index after the jump
\* otherwise; on an empty stack they fail with StackUnderflow and leave the
\* PC at the jump.
C33_JumpsSetNextInstruction ==
    LET n == Len(hist.pre)
        t == FailedInst.Operand
    IN  /\ LastDispatched({OpJMP}) =>
              /\ ~InstructionFailed
              /\ e.pc = t
              /\ e.stack = hist.pre
        /\ (LastDispatched({OpJMPZ, OpJMPNZ}) /\ n = 0) =>
              /\ Done
              /\ ErrorsIs(result.Error, ErrStackUnderflow)
              /\ e.pc = hist.p
              /\ e.stack = <<>>
        /\ (LastDispatched({OpJMPZ, OpJMPNZ}) /\ n > 0) =>
              /\ ~InstructionFailed
              /\ e.stack = SubSeq(hist.pre, 1, n - 1)
              /\ e.pc = IF (FailedInst.Opcode = OpJMPNZ) = IsTruthy(hist.pre[n])
                        THEN t ELSE hist.p + 1

\* A JMPNZ on a truthy value has popped it and jumped back to index 0.
C33_Witness ==
    /\ program = <<NewInstruction(OpPUSH, 1), NewInstruction(OpJMPNZ, 0)>>
    /\ LastDispatched({OpJMPNZ})
    /\ hist.dispatched = 2
    /\ hist.pre = <<FloatValue(1)>>
    /\ e.stack = <<>>
    /\ e.pc = 0

\* C34: the terminal states of one Execute call are exclusive and final: no
\* Result has both Halted=true and an error, and no instruction is
\* dispatched once an instruction has failed or the VM has halted, also when
\* a custom handler calls Halt and then returns an error.
C34_TerminalStatesExclusive ==
    /\ Done => ~(result.Halted /\ result.Error # NoError)
    /\ phase = "dispatch" => (~e.halted /\ result = NoResult)

LimitInForce == maxInstructions(opts, config) > 0

InThisCall == (Running \/ Done) /\ hist.lastOp = "Execute"

\* C36: with an instruction limit N > 0 in force (opts.MaxInstructions, or
\* DefaultInstrLimit when that is 0), an Execute call dispatches at most N
\* instructions before it returns, whatever the program, when every custom
\* handler returns.
C36_LimitBoundsDispatches ==
    (InThisCall /\ LimitInForce) => hist.dispatched <= maxInstructions(opts, config)

\* No instruction of the program is bound to a handler that calls
\* IncrementInstructionCount.
CountedOnce ==
    \A i \in DOMAIN program :
        (program[i].Opcode >= FirstCustomOpcode /\ ~config.InstructionRegistry.isNil)
        => Get(config.InstructionRegistry.handlers, program[i].Opcode).handler
               \notin {"INCR", "ABORT", "WRAP"}

\* C37: within one Execute call the counter starts at 0 and grows by one per
\* dispatched instruction and by one per IncrementInstructionCount of a
\* handler, without wrapping: it is never below the number of instructions
\* dispatched, equals it when no handler adds to it, and is the
\* InstructionCount reported.
C37_CounterIsTheTotal ==
    InThisCall =>
        /\ e.instrCount >= hist.dispatched
        /\ CountedOnce => e.instrCount = hist.dispatched
        /\ Done => result.InstructionCount = e.instrCount

----------------------------------------------------------------------------
(* Properties of the assembler's literals and names, under AsmSpec *)

\* The first two tokens of the source are PUSH or PUSHI, in any case, and a
\* numeric literal.
StartsWithPush(source) ==
    LET lexed == Tokenize(source)
    IN  /\ lexed.err = NoMsg
        /\ Len(lexed.tokens) >= 2
        /\ lexed.tokens[1].Type = "IDENT"
        /\ ToUpper(lexed.tokens[1].Value)
               \in {<<"P", "U", "S", "H">>, <<"P", "U", "S", "H", "I">>}
        /\ lexed.tokens[2].Type = "NUMBER"

\* The numeric literal as written: it is a whole number when it has no dot or
\* only zeros after the dot, and then its value is the integer before the dot.
LiteralIsWhole(value) ==
    \A i \in DOMAIN value :
        (\E j \in 1 .. i - 1 : value[j] = ".") => value[i] \in {"0", "."}

LiteralWhole(value) ==
    IF Dots(value) = 0 THEN ParseInt(value) ELSE ParseFloatTruncated(value)

\* C38: for every numeric literal n accepted as the operand of PUSH
\* (of PUSHI), executing the assembled instruction on an empty stack pushes
\* Float(n) (Int(n)): the value pushed is the literal's value, fraction
\* included, of the type of the mnemonic.
C38_AssembledPushKeepsLiteral ==
    (tool.op = "Assemble" /\ tool.ret.err = NoAssemblerError
        /\ StartsWithPush(tool.source)) =>
        LET tokens == Tokenize(tool.source).tokens
            isFloat == ToUpper(tokens[1].Value) = <<"P", "U", "S", "H">>
            literal == tokens[2].Value
            inst == tool.ret.program.instructions[1]
            x0 == [e |-> [stack |-> <<>>, pc |-> 0, halted |-> FALSE,
                          instrCount |-> 0]]
            d == executeInstruction(inst, x0, DefaultStackSize,
                                    [StackSize |-> 0, DefaultInstrLimit |-> 0,
                                     InstructionRegistry |-> NilRegistry])
        IN  /\ d.err = NoError
            /\ LiteralIsWhole(literal)
            /\ d.x.e.stack = <<IF isFloat THEN FloatValue(LiteralWhole(literal))
                                          ELSE IntValue(LiteralWhole(literal))>>

\* An Assemble call has returned, with the registry it was made with
AssemblyReturned == tool.op \in {"Assemble", "AssembleWith"}

RegistryOf(t) == IF t.op = "AssembleWith" THEN t.reg ELSE AsmRegistry

\* The source is read without an error and starts, in its first column,
\* with the name of an instruction
StartsWithName(source) ==
    LET lexed == Tokenize(source)
    IN  /\ lexed.err = NoMsg
        /\ Parse(lexed.tokens).err = NoMsg
        /\ lexed.tokens[1].Type = "IDENT"
        /\ SubSeq(source, 1, Len(lexed.tokens[1].Value)) = lexed.tokens[1].Value

FirstName(source) == Tokenize(source).tokens[1].Value

OneInstruction(source) ==
    Cardinality({i \in DOMAIN Statements(source) :
                    Statements(source)[i].Type = "Instruction"}) = 1

StandardNames == {m[1] : m \in Range(Mnemonics)}

\* The opcodes whose handler has the name, compared without regard to case
MatchingHandlers(reg, name) ==
    IF reg.isNil THEN {}
    ELSE {o \in List(reg.handlers) : ToUpper(Names(reg.handlers)[o]) = ToUpper(name)}

\* C39: the name of an instruction is looked up first among the standard
\* mnemonics and then among the upper-cased names of the registry: a standard
\* name assembles to the standard opcode even when a handler has the same
\* name, any other name to the opcode of the handler whose name matches it
\* without regard to case, and a name that matches nothing, or any
\* non-standard name without a registry, is an unknown opcode.
C39_StandardNamesFirst ==
    (AssemblyReturned /\ StartsWithName(tool.source)) =>
        LET name == FirstName(tool.source)
            custom == MatchingHandlers(RegistryOf(tool), name)
            ok == tool.ret.err = NoAssemblerError
            unknown == tool.ret.err.Message.text = "unknown opcode"
            first == tool.ret.program.instructions[1]
        IN  IF ToUpper(name) \in StandardNames
            THEN /\ ok => first.Opcode = makeOpcodeMap[ToUpper(name)]
                 /\ OneInstruction(tool.source) => ~unknown
            ELSE IF custom # {}
            THEN /\ ok => first.Opcode \in custom
                 /\ OneInstruction(tool.source) => ok
            ELSE /\ unknown
                 /\ tool.ret.err.Message.arg = name

C39_Witness ==
    /\ tool.op = "AssembleWith"
    /\ tool.reg = NamedRegistry
    /\ tool.source = <<"a", "d", "d", "\n">>
    /\ MatchingHandlers(tool.reg, FirstName(tool.source)) = {FirstCustomOpcode + 2}
    /\ tool.ret.err = NoAssemblerError
    /\ tool.ret.program.instructions = <<NewInstruction(OpADD, 0)>>

\* The source with its first name in upper case
UpperFirst(source) ==
    [i \in DOMAIN source |->
        IF i <= Len(FirstName(source)) THEN ToUpperChar(source[i]) ELSE source[i]]

LabelDefs(stmts) ==
    {stmts[i].Label : i \in {j \in DOMAIN stmts : stmts[j].Type = "Label"}}

\* The statements that refer to a label
LabelUses(stmts) ==
    {i \in DOMAIN stmts :
        stmts[i].Type = "Instruction" /\ stmts[i].Operand.Type = "Label"}

InstructionsBefore(stmts, i) ==
    Cardinality({j \in 1 .. i - 1 : stmts[j].Type = "Instruction"})

\* The index the last definition of exactly this spelling stands for
BoundTo(stmts, name) ==
    LET defs == {j \in DOMAIN stmts : stmts[j].Type = "Label" /\ stmts[j].Label = name}
        last == CHOOSE j \in defs : \A k \in defs : k <= j
    IN  InstructionsBefore(stmts, last)

\* C40: a mnemonic or handler name assembles to the same result in every
\* case variant (the same as its upper-case spelling), while a label
\* reference resolves only to a definition of exactly the same spelling: an
\* assembled jump carries the index of that definition, and a reference
\* whose exact spelling is nowhere defined (loop against LOOP) fails.
C40_NamesFoldedLabelsExact ==
    /\ (AssemblyReturned /\ StartsWithName(tool.source)
            /\ (ToUpper(FirstName(tool.source)) \in StandardNames
                   \/ MatchingHandlers(RegistryOf(tool), FirstName(tool.source)) # {}))
        => /\ tool.ret = Assemble(UpperFirst(tool.source), RegistryOf(tool))
           /\ (tool.ret.err = NoAssemblerError
                   /\ ToUpper(FirstName(tool.source)) \in StandardNames)
              => tool.ret.program.instructions[1].Opcode
                     = makeOpcodeMap[ToUpper(FirstName(tool.source))]
    /\ (AssemblyReturned /\ Tokenize(tool.source).err = NoMsg
            /\ Parse(Tokenize(tool.source).tokens).err = NoMsg)
        => LET stmts == Statements(tool.source)
           IN  /\ tool.ret.err = NoAssemblerError =>
                     \A i \in LabelUses(stmts) :
                        /\ stmts[i].Operand.Label \in LabelDefs(stmts)
                        /\ tool.ret.program.instructions[
                               InstructionsBefore(stmts, i) + 1].Operand
                              = BoundTo(stmts, stmts[i].Operand.Label)
               /\ (\E i \in LabelUses(stmts) :
                       stmts[i].Operand.Label \notin LabelDefs(stmts))
                  => tool.ret.err # NoAssemblerError

C40_Witness ==
    /\ tool.op = "AssembleWith"
    /\ tool.source = <<"A", ":", "\n", "J", "M", "P", " ", "a", "\n">>
    /\ ToUpper(<<"a">>) \in LabelDefs(Statements(tool.source))
    /\ tool.ret.err.Message = Msg("unresolved label", <<"a">>, 0, 0)

====
